---- MODULE Spec2Model ----
(***************************************************************************)
(* Verification model of the uccd hardware-facing runtime:                 *)
(*   - CpuController (uccd/inc/CpuController.hpp)                          *)
(*   - MetricsHistoryStore (uccd/inc/MetricsHistoryStore.hpp) and the      *)
(*     client-side decoder MonitorTab::applyBinaryData                     *)
(*   - PolkitAuthority::checkAuthorization (uccd/inc/PolkitAuthority.hpp)  *)
(* Frequencies are abstract steps 1..MaxFreq (the kernel reports kHz).     *)
(***************************************************************************)
EXTENDS Integers, Sequences, FiniteSets, TLC

VARIABLES
  cores,      \* CpuController::cores : sequence of LogicalCpuController register states
  boost,      \* CpuController::boost register: [avail, val]
  lastOp,     \* name of the last controller operation ("none" before the first)
  eff,        \* last evaluation of computeEffectiveMaxFreq / computeEffectiveMinFreq
  call,       \* the last PolkitAuthority::checkAuthorization call: what the bus did, and the outcome
  buffers,    \* MetricsHistoryStore::m_buffers : metric id -> sequence of data points
  horizonMs,  \* MetricsHistoryStore::m_horizonMs
  storeLast,  \* the last store operation: [op, id, now]
  wire,       \* the last querySinceBinary reply: [since, bytes]
  decoded,    \* the points MonitorTab::applyBinaryData appended from that reply, per metric
  jsonReply,  \* the last querySinceJSON reply: [since, text]
  producers,  \* per producer thread: where it is in push, and the metric it pushes
  mutex,      \* MetricsHistoryStore::m_mutex: "free", or the thread holding it exclusively
  worker,     \* HardwareMonitorWorker: cycle counter, detected hardware, the last tick
  sysfs,      \* /sys/devices/system/cpu as the controller found it: possible, present, online registers
  tray,       \* TrayBackend: active profile, fan/keyboard/water-cooler state, override flags, last handler
  daemon,     \* uccd as the tray's client sees it: active profile, water-cooler state, pending signal
  monitor,    \* MonitorTab: series buffers, m_lastTimestamp, the reply in flight, what was appended
  readers     \* threads inside querySinceBinary / setHorizon, and the number of completed pushes

cpuVars == <<cores, boost, lastOp, eff>>

authVars == <<call>>

storeVars == <<buffers, horizonMs, storeLast, wire, decoded, jsonReply>>

lockVars == <<producers, mutex>>

workerVars == <<worker>>

sysfsVars == <<sysfs>>

trayVars == <<tray, daemon>>

pollVars == <<monitor, readers>>

vars == <<cores, boost, lastOp, eff, call, buffers, horizonMs, storeLast, wire, decoded,
          jsonReply, producers, mutex, worker, sysfs, tray, daemon,
          monitor, readers>>

(***************************************************************************)
(* Bounds                                                                  *)
(***************************************************************************)
\* frequency steps of a single core in the pure-function specification
MaxFreq == 4

\* number of logical cores of the controller
NumCores == 2

\* frequency steps of the cores of the controller
TopFreq == 2

\* caller process ids
NumPids == 2

MaxSamples == 3

NumProducers == 2

\* cores of the machines on which governor and EPP requests are checked
NumGovCores == 3

\* largest core index the kernel may report in possible / present
MaxCoreIndex == 2

\* blocks of a received monitor reply
MaxBlocks == 2

MaxTicks == 24

\* fetches of the polling client
MaxFetches == 3

\* pushes of the store while clients poll or query
MaxPushes == 2

\* threads that query the store
NumReaders == 2

(***************************************************************************)
(* Generic helpers                                                         *)
(***************************************************************************)
Range(s) == { s[i] : i \in 1..Len(s) }

Abs(x) == IF x < 0 THEN -x ELSE x

SetMin(S) == CHOOSE x \in S : \A y \in S : x <= y

RECURSIVE SortedSeq(_)
\* the elements of a finite set of integers in ascending order
SortedSeq(S) == IF S = {} THEN <<>> ELSE <<SetMin(S)>> \o SortedSeq(S \ {SetMin(S)})

Reverse(s) == [i \in 1..Len(s) |-> s[Len(s) + 1 - i]]

\* std::optional<int32_t>
Absent == [has |-> FALSE, v |-> 0]

Some(n) == [has |-> TRUE, v |-> n]

\* std::clamp(v, lo, hi) as libstdc++ computes it: (v < lo) ? lo : (hi < v) ? hi : v
Clamp(v, lo, hi) == IF v < lo THEN lo ELSE IF hi < v THEN hi ELSE v

(***************************************************************************)
(* CpuController: pure functions                                           *)
(***************************************************************************)
RECURSIVE LowerBoundFrom(_, _, _, _)
\* std::lower_bound's halving search over values[first+1 .. first+len] (0-based first);
\* returns the 0-based index of the iterator it stops at.  On a range that is not
\* sorted ascending this is the result the search produces, not the first element >= target.
LowerBoundFrom(values, target, first, len) ==
  IF len <= 0 THEN first
  ELSE LET half == len \div 2
           mid  == first + half
       IN IF values[mid + 1] < target
            THEN LowerBoundFrom(values, target, mid + 1, len - half - 1)
            ELSE LowerBoundFrom(values, target, first, half)

LowerBound(values, target) == LowerBoundFrom(values, target, 0, Len(values))

\* findClosestValue with an exact tie going to the element at the lower_bound position
findClosestValue_TieUp(target, values) ==
  IF values = <<>> THEN target
  ELSE LET it == LowerBound(values, target)
       IN IF it = Len(values) THEN values[Len(values)]
          ELSE IF it = 0 THEN values[1]
          ELSE IF Abs(values[it + 1] - target) <= Abs(values[it] - target)
                 THEN values[it + 1]
                 ELSE values[it]

\* CpuController::findClosestValue
findClosestValue(target, values) ==
  IF values = <<>> THEN target
  ELSE LET it == LowerBound(values, target)
       IN IF it = Len(values) THEN values[Len(values)]
          ELSE IF it = 0 THEN values[1]
          ELSE IF Abs(values[it + 1] - target) < Abs(values[it] - target)
                 THEN values[it + 1]
                 ELSE values[it]

\* getReducedAvailableFreq taking the element at index (length - 1) / 2
getReducedAvailableFreq_LowerIndex(core) ==
  IF core.avail = <<>>
    THEN Some((core.cpuinfoMinFreq + core.cpuinfoMaxFreq) \div 2)
    ELSE Some(core.avail[((Len(core.avail) - 1) \div 2) + 1])

\* LogicalCpuController::getReducedAvailableFreq (cpuinfo registers readable)
getReducedAvailableFreq(core) ==
  IF core.avail = <<>>
    THEN Some((core.cpuinfoMinFreq + core.cpuinfoMaxFreq) \div 2)
    ELSE Some(core.avail[(Len(core.avail) \div 2) + 1])

\* the frequencies of the list that pass the filter f >= scalingMinFreq, in list order
FilterGE(avail, lo) == SelectSeq(avail, LAMBDA f : f >= lo)

\* the frequencies of the list that pass the filter f <= scalingMaxFreq, in list order
FilterLE(avail, hi) == SelectSeq(avail, LAMBDA f : f <= hi)

\* computeEffectiveMaxFreq with the snap taken over the whole list (the >= scalingMin
\* filter forgotten)
computeEffectiveMaxFreq_Unfiltered(core, targetMax, acpiFallback) ==
  IF ~core.hasFreq THEN Absent
  ELSE LET coreMax    == core.cpuinfoMaxFreq
           scalingMin == core.scalingMinFreq
           resolved   == IF ~targetMax.has THEN coreMax
                         ELSE IF targetMax.v = -1
                                THEN IF acpiFallback THEN coreMax
                                     ELSE getReducedAvailableFreq(core).v
                                ELSE targetMax.v
           freq       == Clamp(resolved, scalingMin, coreMax)
       IN IF core.avail # <<>>
            THEN Some(findClosestValue(freq, core.avail))
            ELSE Some(freq)

\* CpuController::computeEffectiveMaxFreq
computeEffectiveMaxFreq(core, targetMax, acpiFallback) ==
  IF ~core.hasFreq THEN Absent
  ELSE LET coreMax    == core.cpuinfoMaxFreq
           scalingMin == core.scalingMinFreq
           resolved   == IF ~targetMax.has THEN coreMax
                         ELSE IF targetMax.v = -1
                                THEN IF acpiFallback THEN coreMax
                                     ELSE getReducedAvailableFreq(core).v
                                ELSE targetMax.v
           freq       == Clamp(resolved, scalingMin, coreMax)
           filtered   == FilterGE(core.avail, scalingMin)
       IN IF core.avail # <<>> /\ filtered # <<>>
            THEN Some(findClosestValue(freq, filtered))
            ELSE Some(freq)

\* CpuController::computeEffectiveMinFreq
computeEffectiveMinFreq(core, targetMin) ==
  IF ~core.hasFreq THEN Absent
  ELSE LET coreMin    == core.cpuinfoMinFreq
           coreMax    == core.cpuinfoMaxFreq
           scalingMax == core.scalingMaxFreq
           freq       == IF ~targetMin.has THEN coreMin
                         ELSE IF targetMin.v = -2 THEN coreMax
                         ELSE Clamp(targetMin.v, coreMin, scalingMax)
           filtered   == FilterLE(core.avail, scalingMax)
       IN IF core.avail # <<>> /\ filtered # <<>>
            THEN Some(findClosestValue(freq, filtered))
            ELSE Some(freq)

(***************************************************************************)
(* Register states of one logical core                                     *)
(***************************************************************************)
\* scaling_available_frequencies contents over the hardware range lo..hi:
\* missing/empty, or any non-empty set of steps listed ascending or descending
AvailLists(lo, hi) ==
  {<<>>} \cup UNION { {SortedSeq(S), Reverse(SortedSeq(S))} : S \in (SUBSET (lo..hi)) \ {{}} }

\* a core whose four frequency registers are readable, with
\* cpuinfoMinFreq <= scalingMinFreq <= scalingMaxFreq <= cpuinfoMaxFreq
FreqStates(top) ==
  { [hasFreq |-> TRUE, cpuinfoMinFreq |-> cmin, cpuinfoMaxFreq |-> cmax,
     scalingMinFreq |-> smin, scalingMaxFreq |-> smax, avail |-> av] :
       cmin \in 1..top, cmax \in 1..top, smin \in 1..top, smax \in 1..top,
       av \in AvailLists(1, top) }

ValidFreqState(c) ==
  /\ c.cpuinfoMinFreq <= c.scalingMinFreq
  /\ c.scalingMinFreq <= c.scalingMaxFreq
  /\ c.scalingMaxFreq <= c.cpuinfoMaxFreq
  /\ \A f \in Range(c.avail) : c.cpuinfoMinFreq <= f /\ f <= c.cpuinfoMaxFreq

\* a core without cpufreq registers
NoFreq == [hasFreq |-> FALSE, cpuinfoMinFreq |-> 0, cpuinfoMaxFreq |-> 0,
           scalingMinFreq |-> 0, scalingMaxFreq |-> 0, avail |-> <<>>]

\* requested targets: absent, the sentinels -2 and -1, and explicit values around the range
Targets(top) == {Absent} \cup { Some(n) : n \in -2..(top + 1) }

NoBoost == [avail |-> FALSE, val |-> FALSE]

NoEval == [op |-> "none", target |-> Absent, acpi |-> FALSE, res |-> Absent]

(***************************************************************************)
(* PolkitAuthority::checkAuthorization                                     *)
(***************************************************************************)
\* the three action tiers
ACTION_READ == "com.uniwill.uccd.read"

ACTION_CONTROL == "com.uniwill.uccd.control"

ACTION_MANAGE_HARDWARE == "com.uniwill.uccd.manage-hardware"

ActionIds == {ACTION_READ, ACTION_CONTROL, ACTION_MANAGE_HARDWARE}

\* QDBusReply<uint> of GetConnectionUnixProcessID: invalid (bus error), or the caller's PID
PidReplies == {[valid |-> FALSE, pid |-> 0]} \cup { [valid |-> TRUE, pid |-> p] : p \in 1..NumPids }

\* reply of CheckAuthorization: an error message (bus error, timeout), or the struct
\* (is_authorized, is_challenge, details)
PolkitReplies ==
  {[kind |-> "error", isAuthorized |-> FALSE, isChallenge |-> FALSE]}
  \cup { [kind |-> "reply", isAuthorized |-> a, isChallenge |-> c] : a \in BOOLEAN, c \in BOOLEAN }

\* where an exception is thrown inside the try block, if anywhere: during the PID lookup,
\* while the subject and the call are built, or while the reply is decoded and logged
ThrowPoints == {"none", "pidLookup", "buildSubject", "decode"}

\* what the bus and the runtime do during one call
AuthEnvs ==
  [actionId : ActionIds, pidReply : PidReplies, polkitReply : PolkitReplies,
   throwAt : ThrowPoints]

\* outcome of the try block: it returns result or throws; queried tells whether the policy
\* authority was called, and with which subject PID and action
AuthOutcome(thrown, result, queried, pid, actionId) ==
  [thrown |-> thrown, result |-> result, queried |-> queried,
   queriedPid |-> pid, queriedAction |-> actionId]

\* the try block with the decoded challenge flag counted as an authorization
AuthBody_ChallengeCounts(env) ==
  IF env.throwAt = "pidLookup" THEN AuthOutcome(TRUE, FALSE, FALSE, 0, "")
  ELSE IF ~env.pidReply.valid THEN AuthOutcome(FALSE, FALSE, FALSE, 0, "")
  ELSE IF env.throwAt = "buildSubject" THEN AuthOutcome(TRUE, FALSE, FALSE, 0, "")
  ELSE IF env.polkitReply.kind = "error"
    THEN AuthOutcome(FALSE, FALSE, TRUE, env.pidReply.pid, env.actionId)
  ELSE IF env.throwAt = "decode"
    THEN AuthOutcome(TRUE, FALSE, TRUE, env.pidReply.pid, env.actionId)
  ELSE AuthOutcome(FALSE, env.polkitReply.isAuthorized \/ env.polkitReply.isChallenge, TRUE,
                   env.pidReply.pid, env.actionId)

\* the try block of PolkitAuthority::checkAuthorization
AuthBody(env) ==
  IF env.throwAt = "pidLookup" THEN AuthOutcome(TRUE, FALSE, FALSE, 0, "")
  ELSE IF ~env.pidReply.valid THEN AuthOutcome(FALSE, FALSE, FALSE, 0, "")
  ELSE IF env.throwAt = "buildSubject" THEN AuthOutcome(TRUE, FALSE, FALSE, 0, "")
  ELSE IF env.polkitReply.kind = "error"
    THEN AuthOutcome(FALSE, FALSE, TRUE, env.pidReply.pid, env.actionId)
  ELSE IF env.throwAt = "decode"
    THEN AuthOutcome(TRUE, FALSE, TRUE, env.pidReply.pid, env.actionId)
  ELSE AuthOutcome(FALSE, env.polkitReply.isAuthorized, TRUE,
                   env.pidReply.pid, env.actionId)

\* checkAuthorization without its catch clauses: an exception leaves the call
checkAuthorization_NoCatch(env) == AuthBody(env)

\* PolkitAuthority::checkAuthorization: the try block, and the catch clauses that turn
\* every exception into the result false (thrown = FALSE: nothing escapes)
checkAuthorization(env) ==
  LET body == AuthBody(env)
  IN IF body.thrown THEN [body EXCEPT !.thrown = FALSE, !.result = FALSE] ELSE body

NoCall == [made |-> FALSE,
           env |-> [actionId |-> "", pidReply |-> [valid |-> FALSE, pid |-> 0],
                    polkitReply |-> [kind |-> "error", isAuthorized |-> FALSE,
                                     isChallenge |-> FALSE],
                    throwAt |-> "none"],
           out |-> AuthOutcome(FALSE, FALSE, FALSE, 0, "")]

AuthIdle == call = NoCall

(***************************************************************************)
(* MetricsHistoryStore                                                     *)
(***************************************************************************)
\* number of MetricId members (MetricId::Count), and of kMetrics entries in the client
METRIC_COUNT == 13

DEFAULT_HORIZON_S == 1800

MIN_HORIZON_S == 60

MAX_HORIZON_S == 7200

MetricIds == 0..(METRIC_COUNT - 1)

EmptyBuffers == [i \in MetricIds |-> <<>>]

\* a double by its IEEE-754 fields: sign, biased exponent (11 bits), the top 4 bits of
\* the fraction and its low 48 bits as 6 bytes, least significant first
Double(neg, exp, fracHi, fracLo) == [neg |-> neg, exp |-> exp, fracHi |-> fracHi, fracLo |-> fracLo]

\* struct MetricDataPoint
MetricDataPoint(ts, v) == [timestampMs |-> ts, value |-> v]

RECURSIVE trim(_, _, _)
\* MetricsHistoryStore::trim: pop from the front while the front is older than the cutoff
trim(buf, nowMs, hMs) ==
  IF buf # <<>> /\ buf[1].timestampMs < nowMs - hMs
    THEN trim(Tail(buf), nowMs, hMs)
    ELSE buf

\* push trimming every metric's buffer against the new timestamp
push_TrimAll(bufs, hMs, id, timestampMs, value) ==
  IF id >= METRIC_COUNT THEN bufs
  ELSE [i \in MetricIds |->
          trim(IF i = id THEN Append(bufs[i], MetricDataPoint(timestampMs, value)) ELSE bufs[i],
               timestampMs, hMs)]

\* MetricsHistoryStore::push( id, timestampMs, value )
push(bufs, hMs, id, timestampMs, value) ==
  IF id >= METRIC_COUNT THEN bufs
  ELSE [bufs EXCEPT ![id] = trim(Append(@, MetricDataPoint(timestampMs, value)), timestampMs, hMs)]

\* setHorizon storing the request without the clamp
setHorizon_Unclamped(seconds) == seconds * 1000

\* MetricsHistoryStore::setHorizon: the new m_horizonMs
setHorizon(seconds) == Clamp(seconds, MIN_HORIZON_S, MAX_HORIZON_S) * 1000

\* MetricsHistoryStore::horizonSeconds
horizonSeconds(hMs) == hMs \div 1000

RECURSIVE LEBytes(_, _)
\* the w bytes of the two's-complement integer n in memory order (little endian)
LEBytes(n, w) == IF w = 0 THEN <<>> ELSE <<n % 256>> \o LEBytes(n \div 256, w - 1)

\* the 8 bytes of a double in memory order (little endian)
DoubleBytes(v) ==
  v.fracLo \o <<(v.exp % 16) * 16 + v.fracHi, (IF v.neg THEN 128 ELSE 0) + (v.exp \div 16)>>

\* std::lower_bound over a buffer by timestampMs: 0-based index of the first point kept
LowerBoundTs(buf, sinceMs) == LowerBound([i \in 1..Len(buf) |-> buf[i].timestampMs], sinceMs)

RECURSIVE PointBytes(_, _)
\* the 16-byte records of buf from 0-based index it to the end
PointBytes(buf, it) ==
  IF it >= Len(buf) THEN <<>>
  ELSE LEBytes(buf[it + 1].timestampMs, 8) \o DoubleBytes(buf[it + 1].value)
       \o PointBytes(buf, it + 1)

RECURSIVE BinaryFrom(_, _, _)
\* the loop of MetricsHistoryStore::querySinceBinary from metric index i
BinaryFrom(bufs, sinceMs, i) ==
  IF i >= METRIC_COUNT THEN <<>>
  ELSE LET buf == bufs[i]
           it  == LowerBoundTs(buf, sinceMs)
       IN IF buf = <<>> \/ it = Len(buf)
            THEN BinaryFrom(bufs, sinceMs, i + 1)
            ELSE <<i>> \o LEBytes(Len(buf) - it, 4) \o PointBytes(buf, it)
                 \o BinaryFrom(bufs, sinceMs, i + 1)

\* MetricsHistoryStore::querySinceBinary
querySinceBinary(bufs, sinceMs) == BinaryFrom(bufs, sinceMs, 0)

(***************************************************************************)
(* MetricsHistoryStore::querySinceJSON and the stream formatting it uses   *)
(***************************************************************************)
MetricNames ==
  <<"cpuTemp", "cpuFanDuty", "cpuPower", "cpuFrequency", "gpuTemp", "gpuFanDuty",
    "gpuPower", "gpuFrequency", "igpuTemp", "igpuPower", "igpuFrequency",
    "waterCoolerFanDuty", "waterCoolerPumpLevel">>

\* metricName( MetricId )
metricName(i) == IF i < Len(MetricNames) THEN MetricNames[i + 1] ELSE "unknown"

DigitChars == <<"0", "1", "2", "3", "4", "5", "6", "7", "8", "9">>

RECURSIVE Pow(_, _)
Pow(b, n) == IF n = 0 THEN 1 ELSE b * Pow(b, n - 1)

RECURSIVE NumDigits(_)
\* number of decimal digits of n >= 0
NumDigits(n) == IF n < 10 THEN 1 ELSE 1 + NumDigits(n \div 10)

RECURSIVE DigitsOf(_, _)
\* the last w decimal digits of n >= 0 as characters, most significant first
DigitsOf(n, w) ==
  IF w = 0 THEN <<>> ELSE DigitsOf(n \div 10, w - 1) \o <<DigitChars[(n % 10) + 1]>>

Zeros(w) == [k \in 1..w |-> "0"]

\* operator<<( int64_t ): the decimal digits, with a sign when negative
FormatInt(n) ==
  IF n < 0 THEN <<"-">> \o DigitsOf(-n, NumDigits(-n)) ELSE DigitsOf(n, NumDigits(n))

RECURSIVE MantissaTo(_, _)
\* the leading bits of the significand of v down to byte j of fracLo: the implicit 1, the
\* top 4 fraction bits, and the bytes 6..j
MantissaTo(v, j) ==
  IF j > 6 THEN 16 + v.fracHi ELSE MantissaTo(v, j + 1) * 256 + v.fracLo[j]

RECURSIVE LowZeroBytes(_, _)
\* number of zero bytes of the fraction from byte j upwards, before the first nonzero one
LowZeroBytes(fracLo, j) ==
  IF j > 6 \/ fracLo[j] # 0 THEN 0 ELSE 1 + LowZeroBytes(fracLo, j + 1)

RECURSIVE ReduceDyadic(_, _)
\* m * 2^p with the factors of two cancelled while p < 0
ReduceDyadic(m, p) ==
  IF p < 0 /\ m % 2 = 0 THEN ReduceDyadic(m \div 2, p + 1) ELSE [m |-> m, p |-> p]

\* the exact decimal value of a normal double or a zero: (-1)^neg * n / 10^k
DoubleDecimal(v) ==
  IF v.exp = 0 THEN [neg |-> v.neg, n |-> 0, k |-> 0]
  ELSE LET z == LowZeroBytes(v.fracLo, 1)
           d == ReduceDyadic(MantissaTo(v, z + 1), v.exp - 1023 - 4 - 8 * (6 - z))
       IN IF d.p >= 0 THEN [neg |-> v.neg, n |-> d.m * Pow(2, d.p), k |-> 0]
          ELSE [neg |-> v.neg, n |-> d.m * Pow(5, -d.p), k |-> -d.p]

\* precision of an output stream that was not given one
StreamPrecision == 6

RECURSIVE StripZeros(_, _)
\* the w-digit number s without its trailing zero digits
StripZeros(s, w) ==
  IF w > 1 /\ s % 10 = 0 THEN StripZeros(s \div 10, w - 1) ELSE [s |-> s, w |-> w]

\* n rounded to StreamPrecision significant digits (ties to even), as the digits s (w of
\* them, trailing zeros dropped) and the decimal exponent x of the first digit
RoundSignificant(n, k) ==
  LET nd == NumDigits(n)
      x  == nd - 1 - k
  IN IF nd <= StreamPrecision
       THEN LET t == StripZeros(n, nd) IN [s |-> t.s, w |-> t.w, x |-> x]
       ELSE LET cut == Pow(10, nd - StreamPrecision)
                q   == n \div cut
                r   == n % cut
                up  == 2 * r > cut \/ (2 * r = cut /\ q % 2 = 1)
                q2  == IF up THEN q + 1 ELSE q
            IN IF q2 = Pow(10, StreamPrecision)
                 THEN [s |-> 1, w |-> 1, x |-> x + 1]
                 ELSE LET t == StripZeros(q2, StreamPrecision)
                      IN [s |-> t.s, w |-> t.w, x |-> x]

\* operator<<( double ) with the default format and precision (printf %g): fixed notation
\* when -4 <= x < precision, scientific otherwise, trailing zeros removed
FormatDouble(v) ==
  LET d    == DoubleDecimal(v)
      r    == RoundSignificant(d.n, d.k)
      sign == IF v.neg THEN <<"-">> ELSE <<>>
      dig  == DigitsOf(r.s, r.w)
  IN IF d.n = 0 THEN sign \o <<"0">>
     ELSE IF r.x < -4 \/ r.x >= StreamPrecision
       THEN sign \o <<dig[1]>>
            \o (IF r.w > 1 THEN <<".">> \o SubSeq(dig, 2, r.w) ELSE <<>>)
            \o <<"e", IF r.x < 0 THEN "-" ELSE "+">>
            \o (LET ax == Abs(r.x) IN DigitsOf(ax, IF ax < 10 THEN 2 ELSE NumDigits(ax)))
     ELSE IF r.x < 0 THEN sign \o <<"0", ".">> \o Zeros(-r.x - 1) \o dig
     ELSE IF r.w <= r.x + 1 THEN sign \o dig \o Zeros(r.x + 1 - r.w)
     ELSE sign \o SubSeq(dig, 1, r.x + 1) \o <<".">> \o SubSeq(dig, r.x + 2, r.w)

RECURSIVE PointsJSON(_, _, _)
\* the point loop of querySinceJSON from 0-based index it; first: no point written yet
PointsJSON(buf, it, firstPt) ==
  IF it >= Len(buf) THEN <<>>
  ELSE (IF firstPt THEN <<>> ELSE <<",">>)
       \o <<"[">> \o FormatInt(buf[it + 1].timestampMs) \o <<",">>
       \o FormatDouble(buf[it + 1].value) \o <<"]">>
       \o PointsJSON(buf, it + 1, FALSE)

RECURSIVE JSONFrom(_, _, _, _)
\* the metric loop of querySinceJSON from metric index i
JSONFrom(bufs, sinceMs, i, firstMetric) ==
  IF i >= METRIC_COUNT THEN <<>>
  ELSE LET buf == bufs[i]
           it  == LowerBoundTs(buf, sinceMs)
       IN IF buf = <<>> \/ it = Len(buf)
            THEN JSONFrom(bufs, sinceMs, i + 1, firstMetric)
            ELSE (IF firstMetric THEN <<>> ELSE <<",">>)
                 \o <<"\"", metricName(i), "\"", ":", "[">>
                 \o PointsJSON(buf, it, TRUE) \o <<"]">>
                 \o JSONFrom(bufs, sinceMs, i + 1, FALSE)

\* querySinceJSON searching for the first sample after the cursor (upper bound)
querySinceJSON_AfterCursor(bufs, sinceMs) ==
  <<"{">> \o JSONFrom(bufs, sinceMs + 1, 0, TRUE) \o <<"}">>

\* MetricsHistoryStore::querySinceJSON: the text as characters (a metric name is one item)
querySinceJSON(bufs, sinceMs) == <<"{">> \o JSONFrom(bufs, sinceMs, 0, TRUE) \o <<"}">>

(***************************************************************************)
(* MonitorTab::applyBinaryData (the client-side decoder)                   *)
(***************************************************************************)
RECURSIVE LEUnsigned(_)
\* memcpy of little-endian bytes into an unsigned integer
LEUnsigned(bytes) ==
  IF bytes = <<>> THEN 0 ELSE bytes[1] + 256 * LEUnsigned(Tail(bytes))

\* memcpy of 8 little-endian bytes into an int64_t (two's complement)
LESigned(bytes) ==
  IF bytes[Len(bytes)] >= 128
    THEN -(LEUnsigned([i \in 1..Len(bytes) |-> 255 - bytes[i]])) - 1
    ELSE LEUnsigned(bytes)

\* memcpy of 8 little-endian bytes into a double
DoubleFromBytes(bytes) ==
  Double(bytes[8] >= 128, (bytes[8] % 128) * 16 + (bytes[7] \div 16), bytes[7] % 16,
         SubSeq(bytes, 1, 6))

\* QPointF( static_cast< qreal >( ts ), val ): exact for |ts| < 2^53
QPointF(ts, val) == [x |-> ts, y |-> val]

RECURSIVE DecodePoints_CursorFromAll(_, _, _, _, _, _)
\* the inner loop with the cursor candidate taken from every record, known metric or not
DecodePoints_CursorFromAll(data, p, count, valid, buf, maxTs) ==
  IF count = 0 THEN [p |-> p, buf |-> buf, maxTs |-> maxTs]
  ELSE LET ts  == LESigned(SubSeq(data, p + 1, p + 8))
           val == DoubleFromBytes(SubSeq(data, p + 9, p + 16))
       IN DecodePoints_CursorFromAll(data, p + 16, count - 1, valid,
                                     IF valid THEN Append(buf, QPointF(ts, val)) ELSE buf,
                                     IF ts > maxTs THEN ts ELSE maxTs)

RECURSIVE DecodePoints(_, _, _, _, _, _)
\* the inner loop of applyBinaryData: count records from 0-based offset p
DecodePoints(data, p, count, valid, buf, maxTs) ==
  IF count = 0 THEN [p |-> p, buf |-> buf, maxTs |-> maxTs]
  ELSE LET ts  == LESigned(SubSeq(data, p + 1, p + 8))
           val == DoubleFromBytes(SubSeq(data, p + 9, p + 16))
       IN IF valid
            THEN DecodePoints(data, p + 16, count - 1, valid, Append(buf, QPointF(ts, val)),
                              IF ts > maxTs THEN ts ELSE maxTs)
            ELSE DecodePoints(data, p + 16, count - 1, valid, buf, maxTs)

RECURSIVE DecodeBlocks(_, _, _, _)
\* the outer loop of applyBinaryData from 0-based offset p; extent is the number of leading
\* bytes of data the loop has read when it stops
DecodeBlocks(data, p, bufs, maxTs) ==
  IF p >= Len(data) THEN [buffers |-> bufs, maxTs |-> maxTs, extent |-> p]
  ELSE IF p + 1 + 4 > Len(data) THEN [buffers |-> bufs, maxTs |-> maxTs, extent |-> p]
  ELSE LET metricId == data[p + 1]
           count    == LEUnsigned(SubSeq(data, p + 2, p + 5))
           q        == p + 5
       IN IF q + count * 16 > Len(data) THEN [buffers |-> bufs, maxTs |-> maxTs, extent |-> q]
          ELSE LET valid == metricId < METRIC_COUNT
                   r == DecodePoints(data, q, count, valid,
                                     IF valid THEN bufs[metricId] ELSE <<>>, maxTs)
               IN DecodeBlocks(data, r.p,
                               IF valid THEN [bufs EXCEPT ![metricId] = r.buf] ELSE bufs,
                               r.maxTs)

\* MonitorTab::applyBinaryData on client buffers bufs with cursor m_lastTimestamp
applyBinaryData(data, bufs, lastTimestamp) ==
  LET r == DecodeBlocks(data, 0, bufs, lastTimestamp)
  IN [buffers |-> r.buffers,
      lastTimestamp |-> IF r.maxTs > lastTimestamp THEN r.maxTs + 1 ELSE lastTimestamp,
      extent |-> r.extent]

NoStoreOp == [op |-> "none", id |-> 0, now |-> 0]

NoWire == [since |-> 0, bytes |-> <<>>]

NoDecoded == [buffers |-> EmptyBuffers, lastTimestamp |-> 0, extent |-> 0]

NoJSON == [since |-> 0, text |-> <<>>]

StoreIdle ==
  /\ buffers = EmptyBuffers
  /\ horizonMs = DEFAULT_HORIZON_S * 1000
  /\ storeLast = NoStoreOp
  /\ wire = NoWire
  /\ decoded = NoDecoded
  /\ jsonReply = NoJSON

(***************************************************************************)
(* Producer threads of the store, and the hardware monitor worker          *)
(***************************************************************************)
\* threads that call push (worker threads)
ProducerIds == 1..NumProducers

\* a producer outside push
IdleProducer == [pc |-> "idle", id |-> 0, now |-> 0]

\* m_mutex (std::shared_mutex): the thread holding it exclusively (0: none), and the
\* threads holding it shared
FreeMutex == [writer |-> 0, readers |-> {}]

LockIdle ==
  /\ producers = [p \in ProducerIds |-> IdleProducer]
  /\ mutex = FreeMutex

\* the sub-tasks of a tick with Prime status polled whether or not the utility was detected
TickTasks_PrimeUnconditional(c, primeSupported) ==
  {"gpu", "cpuFrequency"}
  \cup (IF c % 3 = 0 THEN {"cpuPower"} ELSE {})
  \cup (IF c % 12 = 0 THEN {"prime"} ELSE {})

\* the sub-tasks of one tick of the worker loop whose cycle counter reads c: GPU and
\* CPU-frequency sampling always, CPU package power on every 3rd cycle, Prime status on
\* every 12th cycle when the switching utility was detected at start
TickTasks(c, primeSupported) ==
  {"gpu", "cpuFrequency"}
  \cup (IF c % 3 = 0 THEN {"cpuPower"} ELSE {})
  \cup (IF c % 12 = 0 /\ primeSupported THEN {"prime"} ELSE {})

\* what a sub-task that ran delivers: a reading, or the sentinel when its hardware is absent
TaskReport(task, hw) == IF task \in hw THEN "reading" ELSE "sentinel"

\* hardware a machine may have or lack, by the sub-task that reads it
HardwareSets == SUBSET {"gpu", "cpuPower"}

\* ticks since a sub-task last ran, after a tick in which the sub-tasks of ran ran
\* (-1: it has not run yet)
TicksSince(since, task, ran) ==
  IF task \in ran THEN 0 ELSE IF since = -1 THEN -1 ELSE since + 1

\* the worker before its first tick, on a machine with hardware hw
NewWorker(hw, primeSupported) ==
  [cycle |-> 0, hw |-> hw \cup {"cpuFrequency", "prime"}, primeSupported |-> primeSupported,
   ran |-> {}, sentinels |-> {}, sincePower |-> -1, sincePrime |-> -1]

\* one pass of the polling loop: the sub-tasks due at the current cycle run, each delivers a
\* reading or its sentinel, and the cycle counter advances
onWork(w) ==
  LET tasks == TickTasks(w.cycle, w.primeSupported)
  IN [w EXCEPT !.cycle = @ + 1,
               !.ran = tasks,
               !.sentinels = { t \in tasks : TaskReport(t, w.hw) = "sentinel" },
               !.sincePower = TicksSince(@, "cpuPower", tasks),
               !.sincePrime = TicksSince(@, "prime", tasks)]

WorkerIdle == worker = NewWorker({}, FALSE)

(***************************************************************************)
(* Core discovery                                                          *)
(***************************************************************************)
\* std::optional<std::vector<int32_t>>
NoList == [has |-> FALSE, v |-> <<>>]

SomeList(s) == [has |-> TRUE, v |-> s]

\* getAvailableLogicalCores with the collected indices left in the order of 'possible'
getAvailableLogicalCores_Unsorted(possible, present, onlineAvail) ==
  IF ~possible.has \/ ~present.has THEN <<>>
  ELSE LET coreIndexToAdd == SelectSeq(possible.v, LAMBDA i : i \in Range(present.v))
       IN SelectSeq(coreIndexToAdd, LAMBDA i : i = 0 \/ i \in onlineAvail)

\* CpuController::getAvailableLogicalCores: the core indices of the vector it builds, from
\* the contents of 'possible' and 'present' and the set of cores with an online register
getAvailableLogicalCores(possible, present, onlineAvail) ==
  IF ~possible.has \/ ~present.has THEN <<>>
  ELSE LET coreIndexToAdd == SelectSeq(possible.v, LAMBDA i : i \in Range(present.v))
           sorted         == SortSeq(coreIndexToAdd, LAMBDA a, b : a < b)
       IN SelectSeq(sorted, LAMBDA i : i = 0 \/ i \in onlineAvail)

\* the machine of a specification that does not run discovery
NoSysfs == [possible |-> NoList, present |-> NoList, onlineAvail |-> {}]

SysfsIdle == sysfs = NoSysfs

\* no handler has run yet
NoHandler == [op |-> "none", switched |-> FALSE, polled |-> FALSE, wcReported |-> FALSE]

\* the members of a TrayBackend before its constructor polls the daemon
NewTray ==
  [activeProfileId |-> "", activeProfileFanId |-> "", activeProfileKeyboardId |-> "",
   wcEnabled |-> TRUE, wcEnabledOverride |-> FALSE,
   fanProfileOverride |-> FALSE, keyboardProfileOverride |-> FALSE,
   last |-> NoHandler]

NoDaemon == [activeProfile |-> "p1", waterCooler |-> TRUE, signal |-> "none"]

\* no tray is running
NoTray == [last |-> NoHandler]

TrayIdle == tray = NoTray /\ daemon = NoDaemon

\* m_windowSeconds
DEFAULT_WINDOW_S == 300

\* a MonitorTab that has not fetched: empty series, cursor m_lastTimestamp, no reply in
\* flight; appended is every point applyBinaryData has appended, owed every sample the
\* store held at a fetch that was pushed after the fetch before, fresh the number of
\* samples at the back of each store buffer pushed since the last fetch
NewMonitor(lastTimestamp) ==
  [buffer |-> EmptyBuffers, lastTimestamp |-> lastTimestamp, pc |-> "idle", reply |-> <<>>,
   appended |-> EmptyBuffers, owed |-> EmptyBuffers, fresh |-> [i \in MetricIds |-> 0],
   fetches |-> 0, pushes |-> 0]

\* threads that call querySinceBinary
ReaderIds == 1..NumReaders

\* a reader thread outside the store
IdleReader ==
  [pc |-> "idle", arg |-> 0, i |-> 0, out |-> <<>>, snapshot |-> <<>>,
   midPush |-> FALSE, epoch |-> 0]

\* the thread that calls setHorizon, outside the store
IdleSetter == [pc |-> "idle", arg |-> 0]

NoReaders ==
  [thread |-> [r \in ReaderIds |-> IdleReader], setter |-> IdleSetter, pushesDone |-> 0]

\* the monitor tab is not shown
NoMonitor == [pc |-> "off"]

\* no thread has entered the store's reader API
NoThreads == [pushesDone |-> 0]

PollIdle == monitor = NoMonitor /\ readers = NoThreads

(***************************************************************************)
(* SpecEff: the pure functions applied to one core                         *)
(***************************************************************************)
InitEff ==
  /\ \E c \in { s \in FreqStates(MaxFreq) : ValidFreqState(s) } \cup {NoFreq} : cores = <<c>>
  /\ boost = NoBoost
  /\ lastOp = "none"
  /\ eff = NoEval
  /\ AuthIdle /\ StoreIdle /\ LockIdle /\ WorkerIdle /\ SysfsIdle /\ TrayIdle /\ PollIdle

EvalMax ==
  \E t \in Targets(MaxFreq), acpi \in BOOLEAN :
    /\ eff' = [op |-> "max", target |-> t, acpi |-> acpi,
               res |-> computeEffectiveMaxFreq(cores[1], t, acpi)]
    /\ UNCHANGED <<cores, boost, lastOp, authVars, storeVars, lockVars, workerVars, sysfsVars, trayVars, pollVars>>

EvalMin ==
  \E t \in Targets(MaxFreq) :
    /\ eff' = [op |-> "min", target |-> t, acpi |-> FALSE,
               res |-> computeEffectiveMinFreq(cores[1], t)]
    /\ UNCHANGED <<cores, boost, lastOp, authVars, storeVars, lockVars, workerVars, sysfsVars, trayVars, pollVars>>

NextEff == EvalMax \/ EvalMin

SpecEff == InitEff /\ [][NextEff]_vars

(***************************************************************************)
(* CpuController: operations on all cores                                  *)
(***************************************************************************)
\* std::optional<std::string>
NoString == [has |-> FALSE, v |-> ""]

\* core.online.read().value_or( false ): a missing online register reads as offline
ReadOnline(core) == core.onlineAvail /\ core.online

\* a write issued to a register of the core at 0-based position pos (-1: controller-wide),
\* carrying an integer, a boolean or a string
WrInt(reg, pos, n) == [reg |-> reg, pos |-> pos, n |-> n, b |-> FALSE, s |-> ""]

WrBool(reg, pos, b) == [reg |-> reg, pos |-> pos, n |-> 0, b |-> b, s |-> ""]

WrStr(reg, pos, str) == [reg |-> reg, pos |-> pos, n |-> 0, b |-> FALSE, s |-> str]

\* SysfsNode::write on register reg of a core, whose value the core record keeps in field:
\* a write the kernel rejects leaves the register as it was and raises nothing
SysfsWrite(core, reg, field, value) ==
  IF reg \in core.rejects THEN core ELSE [core EXCEPT ![field] = value]

RECURSIVE UseCoresLoop(_, _, _, _)
\* the loop of CpuController::useCores from 0-based position i, k the clamped count
UseCoresLoop(cs, i, k, out) ==
  IF i >= Len(cs) THEN [cores |-> cs, writes |-> out]
  ELSE IF ~cs[i + 1].onlineAvail THEN UseCoresLoop(cs, i + 1, k, out)
  ELSE UseCoresLoop([cs EXCEPT ![i + 1].online = (i < k)], i + 1, k,
                    out \cup {WrBool("online", i, i < k)})

\* useCores without the clamp and with the loop starting at core 0
useCores_FromCoreZero(cs, numberOfCores) ==
  LET n == IF numberOfCores.has THEN numberOfCores.v ELSE Len(cs)
  IN UseCoresLoop(cs, 0, n, {})

\* useCores keeping one core more than requested online (i <= count)
useCores_OneTooMany(cs, numberOfCores) ==
  LET n == IF numberOfCores.has THEN numberOfCores.v ELSE Len(cs)
      k == Clamp(n, 1, Len(cs))
  IN UseCoresLoop(cs, 1, k + 1, {})

\* CpuController::useCores
useCores(cs, numberOfCores) ==
  LET n == IF numberOfCores.has THEN numberOfCores.v ELSE Len(cs)
      k == Clamp(n, 1, Len(cs))
  IN UseCoresLoop(cs, 1, k, {})

RECURSIVE MaxFreqLoop(_, _, _, _, _, _)
\* the core loop of CpuController::setGovernorScalingMaxFrequency from 1-based position i;
\* drv is scalingDriverStr, read once from the first processed core
MaxFreqLoop(cs, i, drv, target, boostAvail, out) ==
  IF i > Len(cs) THEN [cores |-> cs, drv |-> drv, writes |-> out]
  ELSE LET core == cs[i] IN
    IF ~core.hasFreq THEN MaxFreqLoop(cs, i + 1, drv, target, boostAvail, out)
    ELSE IF core.coreIndex # 0 /\ ~ReadOnline(core)
      THEN MaxFreqLoop(cs, i + 1, drv, target, boostAvail, out)
    ELSE LET drv2 == IF drv.has THEN drv ELSE [has |-> TRUE, v |-> core.driver]
             acpiFallback == boostAvail /\ drv2.has /\ drv2.v = "acpi-cpufreq"
             effective == computeEffectiveMaxFreq(core, target, acpiFallback)
         IN IF effective.has
              THEN MaxFreqLoop([cs EXCEPT ![i] = SysfsWrite(@, "scalingMaxFreq", "scalingMaxFreq", effective.v)], i + 1, drv2,
                               target, boostAvail,
                               out \cup {WrInt("scalingMaxFreq", i - 1, effective.v)})
              ELSE MaxFreqLoop(cs, i + 1, drv2, target, boostAvail, out)

\* setGovernorScalingMaxFrequency resolving every target as if no boost toggle existed
setGovernorScalingMaxFrequency_NoAcpiFallback(cs, bst, setMaxFrequency) ==
  LET r == MaxFreqLoop(cs, 1, NoString, setMaxFrequency, FALSE, {})
  IN IF Len(cs) = 0 THEN [cores |-> r.cores, boost |-> bst, writes |-> r.writes]
     ELSE LET first == r.cores[1]
              maximumAvailableFrequency ==
                IF first.avail # <<>> THEN first.avail[1] ELSE first.cpuinfoMaxFreq
              on == ~setMaxFrequency.has \/ setMaxFrequency.v > maximumAvailableFrequency
          IN IF bst.avail /\ r.drv.has /\ r.drv.v = "acpi-cpufreq"
               THEN [cores |-> r.cores, boost |-> [bst EXCEPT !.val = on],
                     writes |-> r.writes \cup {WrBool("boost", -1, on)}]
               ELSE [cores |-> r.cores, boost |-> bst, writes |-> r.writes]

\* setGovernorScalingMaxFrequency with the boost decision taken against the scaling maximum
\* core 0 had when the call began instead of its hardware maximum
setGovernorScalingMaxFrequency_BoostFromScalingMax(cs, bst, setMaxFrequency) ==
  LET r == MaxFreqLoop(cs, 1, NoString, setMaxFrequency, bst.avail, {})
  IN IF Len(cs) = 0 THEN [cores |-> r.cores, boost |-> bst, writes |-> r.writes]
     ELSE LET on == ~setMaxFrequency.has \/ setMaxFrequency.v > cs[1].scalingMaxFreq
          IN IF bst.avail /\ r.drv.has /\ r.drv.v = "acpi-cpufreq"
               THEN [cores |-> r.cores, boost |-> [bst EXCEPT !.val = on],
                     writes |-> r.writes \cup {WrBool("boost", -1, on)}]
               ELSE [cores |-> r.cores, boost |-> bst, writes |-> r.writes]

\* CpuController::setGovernorScalingMaxFrequency: the core loop, then the boost handling
setGovernorScalingMaxFrequency(cs, bst, setMaxFrequency) ==
  LET r == MaxFreqLoop(cs, 1, NoString, setMaxFrequency, bst.avail, {})
  IN IF Len(cs) = 0 THEN [cores |-> r.cores, boost |-> bst, writes |-> r.writes]
     ELSE LET first == r.cores[1]
              maximumAvailableFrequency ==
                IF first.avail # <<>> THEN first.avail[1] ELSE first.cpuinfoMaxFreq
              on == ~setMaxFrequency.has \/ setMaxFrequency.v > maximumAvailableFrequency
          IN IF bst.avail /\ r.drv.has /\ r.drv.v = "acpi-cpufreq"
               THEN [cores |-> r.cores, boost |-> [bst EXCEPT !.val = on],
                     writes |-> r.writes \cup {WrBool("boost", -1, on)}]
               ELSE [cores |-> r.cores, boost |-> bst, writes |-> r.writes]

RECURSIVE MinFreqLoop(_, _, _, _)
\* the core loop of CpuController::setGovernorScalingMinFrequency from 1-based position i
MinFreqLoop(cs, i, target, out) ==
  IF i > Len(cs) THEN [cores |-> cs, writes |-> out]
  ELSE LET core == cs[i] IN
    IF ~core.hasFreq THEN MinFreqLoop(cs, i + 1, target, out)
    ELSE IF core.coreIndex # 0 /\ ReadOnline(core) = FALSE
      THEN MinFreqLoop(cs, i + 1, target, out)
    ELSE LET effective == computeEffectiveMinFreq(core, target)
         IN IF effective.has
              THEN MinFreqLoop([cs EXCEPT ![i] = SysfsWrite(@, "scalingMinFreq", "scalingMinFreq", effective.v)], i + 1, target,
                               out \cup {WrInt("scalingMinFreq", i - 1, effective.v)})
              ELSE MinFreqLoop(cs, i + 1, target, out)

\* CpuController::setGovernorScalingMinFrequency
setGovernorScalingMinFrequency(cs, setMinFrequency) == MinFreqLoop(cs, 1, setMinFrequency, {})

RECURSIVE GovernorLoop(_, _, _, _)
\* the core loop of CpuController::setGovernor from 1-based position i; an offline core
\* (other than core 0) ends the whole call
GovernorLoop(cs, i, governor, out) ==
  IF i > Len(cs) THEN [cores |-> cs, writes |-> out]
  ELSE LET core == cs[i] IN
    IF ~core.hasGov THEN GovernorLoop(cs, i + 1, governor, out)
    ELSE IF core.coreIndex # 0 /\ ReadOnline(core) = FALSE
      THEN [cores |-> cs, writes |-> out]
    ELSE IF governor \in Range(core.availGovs)
      THEN GovernorLoop([cs EXCEPT ![i] = SysfsWrite(@, "scalingGovernor", "gov", governor)], i + 1, governor,
                        out \cup {WrStr("scalingGovernor", i - 1, governor)})
      ELSE GovernorLoop(cs, i + 1, governor, out)

\* setGovernor writing the request to every core it reaches, listed or not
setGovernor_Unchecked(cs, governor) ==
  IF ~governor.has THEN [cores |-> cs, writes |-> {}]
  ELSE LET offline == { i \in 1..Len(cs) :
                          cs[i].hasGov /\ cs[i].coreIndex # 0 /\ ReadOnline(cs[i]) = FALSE }
           reached == { i \in 1..Len(cs) : cs[i].hasGov /\ \A j \in offline : i < j }
       IN [cores |-> [i \in 1..Len(cs) |->
                        IF i \in reached THEN [cs[i] EXCEPT !.gov = governor.v] ELSE cs[i]],
           writes |-> { WrStr("scalingGovernor", i - 1, governor.v) : i \in reached }]

\* CpuController::setGovernor
setGovernor(cs, governor) ==
  IF ~governor.has THEN [cores |-> cs, writes |-> {}]
  ELSE GovernorLoop(cs, 1, governor.v, {})

RECURSIVE PreferenceLoop(_, _, _, _)
\* the core loop of CpuController::setEnergyPerformancePreference from 1-based position i
PreferenceLoop(cs, i, preference, out) ==
  IF i > Len(cs) THEN [cores |-> cs, writes |-> out]
  ELSE LET core == cs[i] IN
    IF ~core.hasEpp THEN PreferenceLoop(cs, i + 1, preference, out)
    ELSE IF core.coreIndex # 0 /\ ReadOnline(core) = FALSE
      THEN [cores |-> cs, writes |-> out]
    ELSE IF preference \in Range(core.availEpps)
      THEN PreferenceLoop([cs EXCEPT ![i] = SysfsWrite(@, "energyPerformancePreference", "epp", preference)], i + 1, preference,
                          out \cup {WrStr("energyPerformancePreference", i - 1, preference)})
      ELSE PreferenceLoop(cs, i + 1, preference, out)

\* CpuController::setEnergyPerformancePreference
setEnergyPerformancePreference(cs, preference) ==
  IF ~preference.has THEN [cores |-> cs, writes |-> {}]
  ELSE PreferenceLoop(cs, 1, preference.v, {})

(***************************************************************************)
(* Spec: the controller and its five operations                            *)
(***************************************************************************)
Drivers == {"acpi-cpufreq", "intel_pstate"}

Governors == {"performance", "powersave"}

Preferences == {"performance", "power"}

\* requested governors / preferences: absent, the known ones and one no core lists
GovernorRequests == {NoString} \cup { [has |-> TRUE, v |-> g] : g \in Governors \cup {"ondemand"} }

PreferenceRequests ==
  {NoString} \cup { [has |-> TRUE, v |-> e] : e \in Preferences \cup {"default"} }

\* requested core counts: absent, and values around [1, number of cores]
CountRequests == {Absent} \cup { Some(n) : n \in 0..(NumCores + 1) }

\* cpufreq frequency registers of a core as the kernel leaves them at boot
\* (scaling limits at the hardware limits), over the steps 1..top:
\* no frequency table, a table listed ascending, a table listed descending
\* whose top step lies below cpuinfoMaxFreq (boost range above the table), or no cpufreq
FreqKinds(top) ==
  { [hasFreq |-> TRUE, cpuinfoMinFreq |-> 1, cpuinfoMaxFreq |-> top,
     scalingMinFreq |-> 1, scalingMaxFreq |-> top, avail |-> av] :
       av \in {<<>>, SortedSeq(1..top), Reverse(SortedSeq(1..(top - 1)))} }
  \cup {NoFreq}

\* a fixed-frequency core: its scaling limits cannot move
FixedFreq == [hasFreq |-> TRUE, cpuinfoMinFreq |-> 1, cpuinfoMaxFreq |-> 1,
              scalingMinFreq |-> 1, scalingMaxFreq |-> 1, avail |-> <<>>]

\* governor / EPP registers of a core: missing, or present with a list of one or two values
GovKinds ==
  { [hasGov |-> FALSE, gov |-> "", availGovs |-> <<>>],
    [hasGov |-> TRUE, gov |-> "performance", availGovs |-> <<"performance">>],
    [hasGov |-> TRUE, gov |-> "performance", availGovs |-> <<"performance", "powersave">>] }

EppKinds ==
  { [hasEpp |-> FALSE, epp |-> "", availEpps |-> <<>>],
    [hasEpp |-> TRUE, epp |-> "performance", availEpps |-> <<"performance", "power">>] }

\* a core that lists only the governor it runs and has no EPP register
OneGov == [hasGov |-> TRUE, gov |-> "performance", availGovs |-> <<"performance">>]

NoEpp == [hasEpp |-> FALSE, epp |-> "", availEpps |-> <<>>]

\* online register of the core at 0-based position i: core 0 runs and on most hardware
\* has no online register; any other core's register is probed on each call and may be
\* missing, or holds online / offline
OnlineKinds(i) ==
  IF i = 0 THEN { [onlineAvail |-> a, online |-> TRUE] : a \in BOOLEAN }
  ELSE { [onlineAvail |-> FALSE, online |-> FALSE],
         [onlineAvail |-> TRUE, online |-> FALSE],
         [onlineAvail |-> TRUE, online |-> TRUE] }

MkCore(i, drv, o, f, g, e) ==
  [coreIndex |-> i, driver |-> drv,
   onlineAvail |-> o.onlineAvail, online |-> o.online,
   hasFreq |-> f.hasFreq, cpuinfoMinFreq |-> f.cpuinfoMinFreq,
   cpuinfoMaxFreq |-> f.cpuinfoMaxFreq, scalingMinFreq |-> f.scalingMinFreq,
   scalingMaxFreq |-> f.scalingMaxFreq, avail |-> f.avail,
   hasGov |-> g.hasGov, gov |-> g.gov, availGovs |-> g.availGovs,
   hasEpp |-> e.hasEpp, epp |-> e.epp, availEpps |-> e.availEpps,
   rejects |-> {}]

Positions == 0..(NumCores - 1)

\* the boost toggle: missing, or present and off (the controller may switch it on)
BoostStates == { NoBoost, [avail |-> TRUE, val |-> FALSE] }

\* the kind of core 0 and the kind shared by all other cores (performance / efficiency cores)
Layout(kinds) == [Positions -> kinds]

Hybrid(l) == \A i \in Positions, j \in Positions : (i > 0 /\ j > 0) => l[i] = l[j]

OnlineLayouts ==
  { o \in [Positions -> UNION { OnlineKinds(i) : i \in Positions }] :
      \A i \in Positions : o[i] \in OnlineKinds(i) }

\* every core has the frequency registers of core 0, or only core 0 has any
Uniform(l) == \A i \in Positions : i > 0 => l[i] \in {l[0], NoFreq}

\* machines that differ in their frequency registers
InitFreqMachine ==
  \E drv \in Drivers, o \in OnlineLayouts, f \in Layout(FreqKinds(TopFreq)) :
    /\ Hybrid(f) /\ Uniform(f)
    /\ cores = [p \in 1..NumCores |-> MkCore(p - 1, drv, o[p - 1], f[p - 1], OneGov, NoEpp)]
    /\ boost \in BoostStates

\* machines whose governor / EPP registers differ between core 0 and the other cores
InitGovMachine ==
  \E o \in OnlineLayouts, g \in Layout(GovKinds), e \in Layout(EppKinds) :
    /\ Hybrid(g) /\ Hybrid(e)
    /\ cores = [p \in 1..NumCores |->
                  MkCore(p - 1, "intel_pstate", o[p - 1], FixedFreq, g[p - 1], e[p - 1])]
    /\ boost = NoBoost

Init ==
  /\ InitFreqMachine \/ InitGovMachine
  /\ lastOp = "none"
  /\ eff = NoEval
  /\ AuthIdle /\ StoreIdle /\ LockIdle /\ WorkerIdle /\ SysfsIdle /\ TrayIdle /\ PollIdle

UseCores ==
  \E n \in CountRequests :
    LET r == useCores(cores, n)
    IN /\ cores' = r.cores
       /\ lastOp' = "useCores"
       /\ UNCHANGED <<boost, eff, authVars, storeVars, lockVars, workerVars, sysfsVars, trayVars, pollVars>>

SetMaxFrequency ==
  \E t \in Targets(TopFreq) :
    LET r == setGovernorScalingMaxFrequency(cores, boost, t)
    IN /\ cores' = r.cores
       /\ boost' = r.boost
       /\ lastOp' = "setMax"
       /\ UNCHANGED <<eff, authVars, storeVars, lockVars, workerVars, sysfsVars, trayVars, pollVars>>

SetMinFrequency ==
  \E t \in Targets(TopFreq) :
    LET r == setGovernorScalingMinFrequency(cores, t)
    IN /\ cores' = r.cores
       /\ lastOp' = "setMin"
       /\ UNCHANGED <<boost, eff, authVars, storeVars, lockVars, workerVars, sysfsVars, trayVars, pollVars>>

SetGovernor ==
  \E g \in GovernorRequests :
    LET r == setGovernor(cores, g)
    IN /\ cores' = r.cores
       /\ lastOp' = "setGovernor"
       /\ UNCHANGED <<boost, eff, authVars, storeVars, lockVars, workerVars, sysfsVars, trayVars, pollVars>>

SetEnergyPerformancePreference ==
  \E e \in PreferenceRequests :
    LET r == setEnergyPerformancePreference(cores, e)
    IN /\ cores' = r.cores
       /\ lastOp' = "setEpp"
       /\ UNCHANGED <<boost, eff, authVars, storeVars, lockVars, workerVars, sysfsVars, trayVars, pollVars>>

Next ==
  \/ UseCores
  \/ SetMaxFrequency
  \/ SetMinFrequency
  \/ SetGovernor
  \/ SetEnergyPerformancePreference

Spec == Init /\ [][Next]_vars

(***************************************************************************)
(* SpecFreq: the same machines under useCores and the frequency setters    *)
(***************************************************************************)
NextFreq == UseCores \/ SetMaxFrequency \/ SetMinFrequency

SpecFreq == Init /\ [][NextFreq]_vars

(***************************************************************************)
(* SpecGov: governor and EPP requests on machines of NumGovCores cores     *)
(***************************************************************************)
GovPositions == 0..(NumGovCores - 1)

\* the online registers of the cores of such a machine
GovOnlineLayouts ==
  { o \in [GovPositions -> UNION { OnlineKinds(i) : i \in GovPositions }] :
      \A i \in GovPositions : o[i] \in OnlineKinds(i) }

\* core 0 of one kind and all other cores of one kind
GovHybrid(l) == \A i \in GovPositions, j \in GovPositions : (i > 0 /\ j > 0) => l[i] = l[j]

InitGov ==
  /\ \E o \in GovOnlineLayouts, g \in [GovPositions -> GovKinds], e \in [GovPositions -> EppKinds] :
       /\ GovHybrid(g) /\ GovHybrid(e)
       /\ cores = [p \in 1..NumGovCores |->
                     MkCore(p - 1, "intel_pstate", o[p - 1], FixedFreq, g[p - 1], e[p - 1])]
  /\ boost = NoBoost
  /\ lastOp = "none"
  /\ eff = NoEval
  /\ AuthIdle /\ StoreIdle /\ LockIdle /\ WorkerIdle /\ SysfsIdle /\ TrayIdle /\ PollIdle

NextGov ==
  \/ SetGovernor
  \/ SetEnergyPerformancePreference

SpecGov == InitGov /\ [][NextGov]_vars

\* a machine on which no controller operation runs
CpuIdle ==
  /\ cores = <<MkCore(0, "intel_pstate", [onlineAvail |-> FALSE, online |-> TRUE],
                      FixedFreq, OneGov, NoEpp)>>
  /\ boost = NoBoost
  /\ lastOp = "none"
  /\ eff = NoEval

(***************************************************************************)
(* SpecAuth: calls of checkAuthorization                                   *)
(***************************************************************************)
InitAuth == CpuIdle /\ AuthIdle /\ StoreIdle /\ LockIdle /\ WorkerIdle /\ SysfsIdle /\ TrayIdle /\ PollIdle

CheckAuthorization ==
  \E env \in AuthEnvs :
    /\ call' = [made |-> TRUE, env |-> env, out |-> checkAuthorization(env)]
    /\ UNCHANGED <<cpuVars, storeVars, lockVars, workerVars, sysfsVars, trayVars, pollVars>>

NextAuth == CheckAuthorization

SpecAuth == InitAuth /\ [][NextAuth]_vars

(***************************************************************************)
(* SpecRejects: the four setters on machines where the kernel rejects the  *)
(* writes to some cores                                                    *)
(***************************************************************************)
\* the per-core registers the setters write
SetterRegisters ==
  {"scalingMaxFreq", "scalingMinFreq", "scalingGovernor", "energyPerformancePreference"}

\* a two-step core whose scaling limits can move, without a frequency list
TwoStepFreq == [hasFreq |-> TRUE, cpuinfoMinFreq |-> 1, cpuinfoMaxFreq |-> 2,
                scalingMinFreq |-> 1, scalingMaxFreq |-> 2, avail |-> <<>>]

TwoGovs == [hasGov |-> TRUE, gov |-> "performance", availGovs |-> <<"performance", "powersave">>]

TwoEpps == [hasEpp |-> TRUE, epp |-> "performance", availEpps |-> <<"performance", "power">>]

\* machines that exercise the frequency setters, setGovernor, or
\* setEnergyPerformancePreference
RejectKinds ==
  { [f |-> TwoStepFreq, g |-> OneGov, e |-> NoEpp],
    [f |-> FixedFreq, g |-> TwoGovs, e |-> NoEpp],
    [f |-> FixedFreq, g |-> OneGov, e |-> TwoEpps] }

\* core 0 has no online register; every other core has one and is online or offline
RejectOnline(i, on) ==
  IF i = 0 THEN [onlineAvail |-> FALSE, online |-> TRUE]
  ELSE [onlineAvail |-> TRUE, online |-> on]

InitRejects ==
  /\ \E k \in RejectKinds, on \in [GovPositions -> BOOLEAN], rej \in SUBSET GovPositions :
       cores = [p \in 1..NumGovCores |->
                  [MkCore(p - 1, "intel_pstate", RejectOnline(p - 1, on[p - 1]), k.f, k.g, k.e)
                     EXCEPT !.rejects = IF p - 1 \in rej THEN SetterRegisters ELSE {}]]
  /\ boost = NoBoost
  /\ lastOp = "none"
  /\ eff = NoEval
  /\ AuthIdle /\ StoreIdle /\ LockIdle /\ WorkerIdle /\ SysfsIdle /\ TrayIdle /\ PollIdle

NextRejects ==
  \/ SetMaxFrequency
  \/ SetMinFrequency
  \/ SetGovernor
  \/ SetEnergyPerformancePreference

SpecRejects == InitRejects /\ [][NextRejects]_vars

(***************************************************************************)
(* SpecDiscovery: discovery at construction, then the controller operations *)
(***************************************************************************)
CoreIndices == 0..MaxCoreIndex

\* contents of 'possible': unreadable, or a set of indices listed ascending or descending
PossibleLists ==
  {NoList} \cup UNION { {SomeList(SortedSeq(S)), SomeList(Reverse(SortedSeq(S)))} :
                        S \in SUBSET CoreIndices }

\* contents of 'present': unreadable, or a set of indices
PresentLists == {NoList} \cup { SomeList(SortedSeq(S)) : S \in SUBSET CoreIndices }

\* the core the constructor builds for index i: a fixed-frequency core, running when the
\* controller starts
DiscoveredCore(i, onlineAvail) ==
  MkCore(i, "intel_pstate", [onlineAvail |-> i \in onlineAvail, online |-> TRUE],
         FixedFreq, OneGov, NoEpp)

InitDiscovery ==
  /\ \E possible \in PossibleLists, present \in PresentLists, onlineAvail \in SUBSET CoreIndices :
       /\ sysfs = [possible |-> possible, present |-> present, onlineAvail |-> onlineAvail]
       /\ cores = LET found == getAvailableLogicalCores(possible, present, onlineAvail)
                  IN [p \in 1..Len(found) |-> DiscoveredCore(found[p], onlineAvail)]
  /\ boost = NoBoost
  /\ lastOp = "none"
  /\ eff = NoEval
  /\ AuthIdle /\ StoreIdle /\ LockIdle /\ WorkerIdle /\ TrayIdle /\ PollIdle

NextDiscovery ==
  \/ UseCores
  \/ SetMaxFrequency
  \/ SetMinFrequency
  \/ SetGovernor
  \/ SetEnergyPerformancePreference

SpecDiscovery == InitDiscovery /\ [][NextDiscovery]_vars

(***************************************************************************)
(* SpecStore: the metrics store, its producers and one polling client      *)
(***************************************************************************)
\* pushed metrics: CpuTemp, GpuTemp, and a byte that is no MetricId
PushIds == {0, 4, METRIC_COUNT}

\* timestamps handed to push, in ms: callers pass any int64, and the wall-clock overload
\* reads system_clock, which is not monotonic
Times == {0, 70000}

\* pushed values: 1.0 and 4523.0625
Values == { Double(FALSE, 1023, 0, <<0, 0, 0, 0, 0, 0>>),
            Double(FALSE, 1035, 1, <<0, 0, 0, 0, 16, 171>>) }

\* requested horizons in seconds: below, at, inside and above the supported range
HorizonRequests == {-1, 30, MIN_HORIZON_S, DEFAULT_HORIZON_S, 9000}

\* cursors a client sends
Cursors == Times \cup {70001}

RECURSIVE SumLen(_, _)
SumLen(bufs, i) == IF i >= METRIC_COUNT THEN 0 ELSE Len(bufs[i]) + SumLen(bufs, i + 1)

\* number of samples held by the store
StoredSamples(bufs) == SumLen(bufs, 0)

\* wire and decoded hold the reply to the last operation when it was a query, and what a
\* client with empty series makes of it
Push ==
  \E id \in PushIds, now \in Times, v \in Values :
    /\ StoredSamples(buffers) < MaxSamples
    /\ buffers' = push(buffers, horizonMs, id, now, v)
    /\ storeLast' = [op |-> "push", id |-> id, now |-> now]
    /\ wire' = NoWire
    /\ decoded' = NoDecoded
    /\ jsonReply' = NoJSON
    /\ UNCHANGED <<horizonMs, cpuVars, authVars, lockVars, workerVars, sysfsVars, trayVars, pollVars>>

SetHorizon ==
  \E seconds \in HorizonRequests :
    /\ horizonMs' = setHorizon(seconds)
    /\ storeLast' = [op |-> "setHorizon", id |-> 0, now |-> seconds]
    /\ wire' = NoWire
    /\ decoded' = NoDecoded
    /\ jsonReply' = NoJSON
    /\ UNCHANGED <<buffers, cpuVars, authVars, lockVars, workerVars, sysfsVars, trayVars, pollVars>>

QueryBinary ==
  \E sinceMs \in Cursors :
    LET bytes == querySinceBinary(buffers, sinceMs)
    IN /\ wire' = [since |-> sinceMs, bytes |-> bytes]
       /\ decoded' = applyBinaryData(bytes, EmptyBuffers, sinceMs)
       /\ storeLast' = [op |-> "query", id |-> 0, now |-> sinceMs]
       /\ jsonReply' = NoJSON
       /\ UNCHANGED <<buffers, horizonMs, cpuVars, authVars, lockVars, workerVars, sysfsVars, trayVars, pollVars>>

QueryJSON ==
  \E sinceMs \in Cursors :
    /\ jsonReply' = [since |-> sinceMs, text |-> querySinceJSON(buffers, sinceMs)]
    /\ storeLast' = [op |-> "queryJSON", id |-> 0, now |-> sinceMs]
    /\ wire' = NoWire
    /\ decoded' = NoDecoded
    /\ UNCHANGED <<buffers, horizonMs, cpuVars, authVars, lockVars, workerVars, sysfsVars, trayVars, pollVars>>

InitStore == CpuIdle /\ AuthIdle /\ StoreIdle /\ LockIdle /\ WorkerIdle /\ SysfsIdle /\ TrayIdle /\ PollIdle

NextStore == Push \/ SetHorizon \/ QueryBinary \/ QueryJSON

SpecStore == InitStore /\ [][NextStore]_vars

(***************************************************************************)
(* SpecDecode: MonitorTab::applyBinaryData on received byte sequences      *)
(***************************************************************************)
\* the value 0.0
ZeroValue == Double(FALSE, 0, 0, <<0, 0, 0, 0, 0, 0>>)

\* a count no reply of this size can hold
BigCount == 65536

\* metric ids on the wire: a known one and the first unknown one
DecodeIds == {4, METRIC_COUNT}

\* the records a block carries: none, or one record with timestamp 0 or 70000
RecordLists == {<<>>, <<0>>, <<70000>>}

\* a block as some sender built it: its id byte, the count its header declares, and the
\* timestamps of the records that follow the header
BlockShapes == [id : DecodeIds, declared : {0, 1, 2, BigCount}, recs : RecordLists]

BlockBytes(b) ==
  <<b.id>> \o LEBytes(b.declared, 4)
  \o PointBytes([i \in 1..Len(b.recs) |-> MetricDataPoint(b.recs[i], ZeroValue)], 0)

RECURSIVE ConcatBlocks(_)
ConcatBlocks(bs) == IF bs = <<>> THEN <<>> ELSE BlockBytes(Head(bs)) \o ConcatBlocks(Tail(bs))

\* the timestamps a decoder reads stay within the integers of the model: a header that
\* declares more records than follow it is the last block, declares BigCount, or declares
\* one record more and is followed by a block with one record of timestamp 0
Representable(bs) ==
  \A k \in 1..Len(bs) :
    bs[k].declared > Len(bs[k].recs) =>
      \/ k = Len(bs)
      \/ bs[k].declared = BigCount
      \/ /\ bs[k].declared = Len(bs[k].recs) + 1
         /\ bs[k + 1].recs = <<0>> /\ bs[k + 1].declared # BigCount

\* bytes missing at the end of a received reply
Cuts == {0, 1, 4, 5, 6, 15, 16, 17, 21}

Truncate(bytes, cut) == SubSeq(bytes, 1, IF cut > Len(bytes) THEN 0 ELSE Len(bytes) - cut)

ReceivedReplies ==
  { Truncate(ConcatBlocks(bs), cut) :
      bs \in { x \in UNION { [1..n -> BlockShapes] : n \in 0..MaxBlocks } : Representable(x) },
      cut \in Cuts }

InitDecode ==
  /\ CpuIdle /\ AuthIdle /\ LockIdle /\ WorkerIdle /\ SysfsIdle /\ TrayIdle /\ PollIdle
  /\ buffers = EmptyBuffers
  /\ horizonMs = DEFAULT_HORIZON_S * 1000
  /\ storeLast = NoStoreOp
  /\ decoded = NoDecoded
  /\ jsonReply = NoJSON
  /\ \E bytes \in ReceivedReplies : wire = [since |-> 0, bytes |-> bytes]

Decode ==
  /\ storeLast.op = "none"
  /\ decoded' = applyBinaryData(wire.bytes, decoded.buffers, wire.since)
  /\ storeLast' = [op |-> "decode", id |-> 0, now |-> wire.since]
  /\ UNCHANGED <<buffers, horizonMs, wire, jsonReply, cpuVars, authVars, lockVars, workerVars,
                 sysfsVars, trayVars, pollVars>>

NextDecode == Decode

SpecDecode == InitDecode /\ [][NextDecode]_vars

(***************************************************************************)
(* SpecLock: producer threads inside push, one step per lock operation     *)
(***************************************************************************)
\* the value the producers push: 1.0
ProducerValue == Double(FALSE, 1023, 0, <<0, 0, 0, 0, 0, 0>>)

\* number of producers inside push
InFlight == Cardinality({ p \in ProducerIds : producers[p].pc # "idle" })

\* push up to the lock: the index check, then the thread stands at std::unique_lock
PushCall(p) ==
  /\ producers[p].pc = "idle"
  /\ StoredSamples(buffers) + InFlight < MaxSamples
  /\ \E id \in PushIds, now \in Times :
       producers' = IF id >= METRIC_COUNT THEN producers
                    ELSE [producers EXCEPT ![p] = [pc |-> "lock", id |-> id, now |-> now]]
  /\ UNCHANGED <<mutex, cpuVars, authVars, storeVars, workerVars, sysfsVars, trayVars, pollVars>>

\* std::unique_lock lock( m_mutex ): granted when no thread holds the mutex
PushLock(p) ==
  /\ producers[p].pc = "lock"
  /\ mutex.writer = 0 /\ mutex.readers = {}
  /\ mutex' = [mutex EXCEPT !.writer = p]
  /\ producers' = [producers EXCEPT ![p].pc = "body"]
  /\ UNCHANGED <<cpuVars, authVars, storeVars, workerVars, sysfsVars, trayVars, pollVars>>

\* push_back, trim, and the unlock at the end of the scope
PushBody(p) ==
  /\ producers[p].pc = "body"
  /\ buffers' = push(buffers, horizonMs, producers[p].id, producers[p].now, ProducerValue)
  /\ storeLast' = [op |-> "push", id |-> producers[p].id, now |-> producers[p].now]
  /\ mutex' = FreeMutex
  /\ producers' = [producers EXCEPT ![p] = IdleProducer]
  /\ UNCHANGED <<horizonMs, wire, decoded, jsonReply, cpuVars, authVars, workerVars, sysfsVars, trayVars, pollVars>>

InitLock == CpuIdle /\ AuthIdle /\ StoreIdle /\ LockIdle /\ WorkerIdle /\ SysfsIdle /\ TrayIdle /\ PollIdle

NextLock == \E p \in ProducerIds : PushCall(p) \/ PushLock(p) \/ PushBody(p)

SpecLock == InitLock /\ [][NextLock]_vars

(***************************************************************************)
(* SpecWorker: the polling loop of the hardware monitor worker             *)
(***************************************************************************)
InitWorker ==
  /\ CpuIdle /\ AuthIdle /\ StoreIdle /\ LockIdle /\ SysfsIdle /\ TrayIdle /\ PollIdle
  /\ \E hw \in HardwareSets, primeSupported \in BOOLEAN : worker = NewWorker(hw, primeSupported)

Tick ==
  /\ worker.cycle < MaxTicks
  /\ worker' = onWork(worker)
  /\ UNCHANGED <<cpuVars, authVars, storeVars, lockVars, sysfsVars, trayVars, pollVars>>

NextWorker == Tick

SpecWorker == InitWorker /\ [][NextWorker]_vars

(***************************************************************************)
(* SpecPoll: MonitorTab polling the store while the worker pushes          *)
(***************************************************************************)
\* metrics the worker pushes while the client polls: CpuTemp, GpuTemp
PollIds == {0, 4}

\* timestamps of those pushes: two consecutive milliseconds, and one five minutes later
PollTimes == {1000, 1001, 400000}

\* QDateTime::currentMSecsSinceEpoch() in the client when it trims
ClientClock == {1001, 400000}

\* the last n points of a store buffer, as the client stores them
LastPoints(buf, n) ==
  [k \in 1..n |-> QPointF(buf[Len(buf) - n + k].timestampMs, buf[Len(buf) - n + k].value)]

RECURSIVE DropStale(_, _)
\* the loop of trimSeries on one buffer
DropStale(buf, cutoff) ==
  IF buf # <<>> /\ buf[1].x < cutoff THEN DropStale(Tail(buf), cutoff) ELSE buf

\* MonitorTab::trimSeries
trimSeries(bufs, now) ==
  [i \in MetricIds |-> DropStale(bufs[i], now - DEFAULT_WINDOW_S * 1000)]

\* the tab is shown: the cursor starts one window before the client's clock (0 and 1000
\* stand for a clock before and at the first sample); the store keeps 60 s or 30 min
InitPoll ==
  /\ CpuIdle /\ AuthIdle /\ LockIdle /\ WorkerIdle /\ SysfsIdle /\ TrayIdle
  /\ buffers = EmptyBuffers
  /\ horizonMs \in {setHorizon(MIN_HORIZON_S), setHorizon(DEFAULT_HORIZON_S)}
  /\ storeLast = NoStoreOp
  /\ wire = NoWire
  /\ decoded = NoDecoded
  /\ jsonReply = NoJSON
  /\ \E lastTimestamp \in {0, 1000} : monitor = NewMonitor(lastTimestamp)
  /\ readers = NoReaders

\* the worker pushes a sample
PollPush ==
  \E id \in PollIds, now \in PollTimes, v \in {ProducerValue} :
    /\ monitor.pushes < MaxPushes
    /\ buffers' = push(buffers, horizonMs, id, now, v)
    /\ storeLast' = [op |-> "push", id |-> id, now |-> now]
    /\ monitor' = [monitor EXCEPT
                     !.pushes = @ + 1,
                     !.fresh[id] = IF @ + 1 > Len(buffers'[id]) THEN Len(buffers'[id]) ELSE @ + 1]
    /\ UNCHANGED <<horizonMs, wire, decoded, jsonReply, readers, cpuVars, authVars, lockVars,
                   workerVars, sysfsVars, trayVars>>

\* fetchData up to the reply: the daemon answers getMonitorDataSince( m_lastTimestamp )
FetchQuery ==
  /\ monitor.pc = "idle"
  /\ monitor.fetches < MaxFetches
  /\ monitor' = [monitor EXCEPT
                   !.pc = "reply",
                   !.fetches = @ + 1,
                   !.reply = querySinceBinary(buffers, monitor.lastTimestamp),
                   !.owed = [i \in MetricIds |-> @[i] \o LastPoints(buffers[i], monitor.fresh[i])],
                   !.fresh = [i \in MetricIds |-> 0]]
  /\ storeLast' = [op |-> "query", id |-> 0, now |-> monitor.lastTimestamp]
  /\ UNCHANGED <<buffers, horizonMs, wire, decoded, jsonReply, readers, cpuVars, authVars,
                 lockVars, workerVars, sysfsVars, trayVars>>

\* fetchData from the reply on: nothing for an empty reply, else applyBinaryData, trimSeries
FetchApply ==
  \E now \in ClientClock :
    /\ monitor.pc = "reply"
    /\ monitor' =
         IF monitor.reply = <<>> THEN [monitor EXCEPT !.pc = "idle"]
         ELSE LET r == applyBinaryData(monitor.reply, monitor.buffer, monitor.lastTimestamp)
                  added == applyBinaryData(monitor.reply, EmptyBuffers, monitor.lastTimestamp)
              IN [monitor EXCEPT
                    !.pc = "idle",
                    !.reply = <<>>,
                    !.buffer = trimSeries(r.buffers, now),
                    !.lastTimestamp = r.lastTimestamp,
                    !.appended = [i \in MetricIds |-> @[i] \o added.buffers[i]]]
    /\ storeLast' = [op |-> "decode", id |-> 0, now |-> monitor.lastTimestamp]
    /\ UNCHANGED <<buffers, horizonMs, wire, decoded, jsonReply, readers, cpuVars, authVars,
                   lockVars, workerVars, sysfsVars, trayVars>>

NextPoll == PollPush \/ FetchQuery \/ FetchApply

SpecPoll == InitPoll /\ [][NextPoll]_vars

(***************************************************************************)
(* SpecSnapshot: one pushing thread, and threads in querySinceBinary and   *)
(* setHorizon, one step per lock operation and per access to a buffer      *)
(***************************************************************************)
\* the pushing thread
Pusher == 1

\* cursors of the queries, and horizons requested, in that specification
SnapshotCursors == {0, 70000}

SnapshotHorizons == {MIN_HORIZON_S}

\* the samples the pushing thread pushes: CpuTemp at 0 and at 70000 ms, GpuTemp at 70000 ms
SnapshotPushes == {<<0, 0>>, <<0, 70000>>, <<4, 70000>>}

\* the identity under which the thread in setHorizon holds m_mutex exclusively
HorizonSetter == NumProducers + 1

\* a shared lock handed out whatever the state of the mutex
SharedLockGranted_Always(m) == TRUE

\* std::shared_lock lock( m_mutex ): granted when no thread holds the mutex exclusively
SharedLockGranted(m) == m.writer = 0

\* std::unique_lock lock( m_mutex ): granted when no thread holds the mutex
UniqueLockGranted(m) == m.writer = 0 /\ m.readers = {}

\* the smallest index from i on whose buffer is not empty, METRIC_COUNT if there is none
RECURSIVE NextNonEmpty(_, _)
NextNonEmpty(bufs, i) ==
  IF i >= METRIC_COUNT THEN METRIC_COUNT
  ELSE IF bufs[i] # <<>> THEN i ELSE NextNonEmpty(bufs, i + 1)

\* one iteration of the loop of querySinceBinary on a non-empty buffer: the bytes it emits
MetricBlock(buf, i, sinceMs) ==
  LET it == LowerBoundTs(buf, sinceMs)
  IN IF it = Len(buf) THEN <<>>
     ELSE <<i>> \o LEBytes(Len(buf) - it, 4) \o PointBytes(buf, it)

\* the pushing thread enters push: the index check, then it stands at std::unique_lock
SnapshotPushCall ==
  /\ readers.pushesDone < MaxPushes
  /\ producers[Pusher].pc = "idle"
  /\ \E s \in SnapshotPushes :
       producers' = [producers EXCEPT ![Pusher] = [pc |-> "lock", id |-> s[1], now |-> s[2]]]
  /\ UNCHANGED <<mutex, cpuVars, authVars, storeVars, workerVars, sysfsVars, trayVars, pollVars>>

\* push_back, first half: the element is in the deque with its timestamp, its value not
\* yet stored
PushAppend(p) ==
  /\ producers[p].pc = "body"
  /\ buffers' = [buffers EXCEPT ![producers[p].id] =
                   Append(@, MetricDataPoint(producers[p].now, ZeroValue))]
  /\ producers' = [producers EXCEPT ![p].pc = "value"]
  /\ UNCHANGED <<mutex, horizonMs, storeLast, wire, decoded, jsonReply, cpuVars, authVars,
                 workerVars, sysfsVars, trayVars, pollVars>>

\* push_back, second half: the value is stored
PushValue(p) ==
  /\ producers[p].pc = "value"
  /\ buffers' = [buffers EXCEPT ![producers[p].id] =
                   [@ EXCEPT ![Len(@)].value = ProducerValue]]
  /\ producers' = [producers EXCEPT ![p].pc = "trim"]
  /\ UNCHANGED <<mutex, horizonMs, storeLast, wire, decoded, jsonReply, cpuVars, authVars,
                 workerVars, sysfsVars, trayVars, pollVars>>

\* trim, and the unlock at the end of the scope
PushTrim(p) ==
  /\ producers[p].pc = "trim"
  /\ buffers' = [buffers EXCEPT ![producers[p].id] = trim(@, producers[p].now, horizonMs)]
  /\ storeLast' = [op |-> "push", id |-> producers[p].id, now |-> producers[p].now]
  /\ mutex' = FreeMutex
  /\ producers' = [producers EXCEPT ![p] = IdleProducer]
  /\ readers' = [readers EXCEPT !.pushesDone = @ + 1]
  /\ UNCHANGED <<horizonMs, wire, decoded, jsonReply, monitor, cpuVars, authVars, workerVars,
                 sysfsVars, trayVars>>

\* a thread enters querySinceBinary( sinceMs ) and is granted the shared lock; snapshot,
\* midPush and epoch record the buffers, whether a push stood between its append and its
\* unlock, and the pushes completed, at that moment
QueryLock(r) ==
  \E sinceMs \in SnapshotCursors :
    /\ readers.thread[r].pc = "idle"
    /\ SharedLockGranted(mutex)
    /\ mutex' = [mutex EXCEPT !.readers = @ \cup {r}]
    /\ readers' = [readers EXCEPT !.thread[r] =
                     [pc |-> "read", arg |-> sinceMs, i |-> 0, out |-> <<>>,
                      snapshot |-> buffers,
                      midPush |-> \E p \in ProducerIds : producers[p].pc \in {"value", "trim"},
                      epoch |-> readers.pushesDone]]
    /\ UNCHANGED <<producers, monitor, cpuVars, authVars, storeVars, workerVars, sysfsVars,
                   trayVars>>

\* the loop of querySinceBinary up to and including the next non-empty buffer
QueryVisit(r) ==
  /\ readers.thread[r].pc = "read"
  /\ LET t == readers.thread[r]
         j == NextNonEmpty(buffers, t.i)
     IN /\ j < METRIC_COUNT
        /\ readers' = [readers EXCEPT !.thread[r] =
                         [t EXCEPT !.i = j + 1,
                                   !.out = @ \o MetricBlock(buffers[j], j, t.arg)]]
  /\ UNCHANGED <<monitor, cpuVars, authVars, storeVars, lockVars, workerVars, sysfsVars,
                 trayVars>>

\* the loop ends: the lock is released and out is returned
QueryUnlock(r) ==
  /\ readers.thread[r].pc = "read"
  /\ NextNonEmpty(buffers, readers.thread[r].i) = METRIC_COUNT
  /\ mutex' = [mutex EXCEPT !.readers = @ \ {r}]
  /\ readers' = [readers EXCEPT !.thread[r].pc = "done"]
  /\ UNCHANGED <<producers, monitor, cpuVars, authVars, storeVars, workerVars, sysfsVars,
                 trayVars>>

\* the caller has the reply
QueryReturn(r) ==
  /\ readers.thread[r].pc = "done"
  /\ readers' = [readers EXCEPT !.thread[r] = IdleReader]
  /\ UNCHANGED <<monitor, cpuVars, authVars, storeVars, lockVars, workerVars, sysfsVars,
                 trayVars>>

\* a thread enters setHorizon( seconds ) and is granted the exclusive lock
SetHorizonLock ==
  \E seconds \in SnapshotHorizons :
    /\ readers.setter.pc = "idle"
    /\ UniqueLockGranted(mutex)
    /\ mutex' = [mutex EXCEPT !.writer = HorizonSetter]
    /\ readers' = [readers EXCEPT !.setter = [pc |-> "write", arg |-> seconds]]
    /\ UNCHANGED <<producers, monitor, cpuVars, authVars, storeVars, workerVars, sysfsVars,
                   trayVars>>

\* the assignment to m_horizonMs, and the unlock at the end of the scope
SetHorizonBody ==
  /\ readers.setter.pc = "write"
  /\ horizonMs' = setHorizon(readers.setter.arg)
  /\ mutex' = FreeMutex
  /\ readers' = [readers EXCEPT !.setter = IdleSetter]
  /\ UNCHANGED <<buffers, storeLast, wire, decoded, jsonReply, producers, monitor, cpuVars,
                 authVars, workerVars, sysfsVars, trayVars>>

InitSnapshot ==
  /\ CpuIdle /\ AuthIdle /\ StoreIdle /\ LockIdle /\ WorkerIdle /\ SysfsIdle /\ TrayIdle
  /\ monitor = NoMonitor
  /\ readers = NoReaders

NextSnapshot ==
  \/ SnapshotPushCall
  \/ PushLock(Pusher)
  \/ PushAppend(Pusher)
  \/ PushValue(Pusher)
  \/ PushTrim(Pusher)
  \/ \E r \in ReaderIds :
        \/ QueryLock(r)
        \/ QueryVisit(r)
        \/ QueryUnlock(r)
        \/ QueryReturn(r)
  \/ SetHorizonLock
  \/ SetHorizonBody

SpecSnapshot == InitSnapshot /\ [][NextSnapshot]_vars

(***************************************************************************)
(* TrayBackend: the active profile and the manual overrides (SpecTray)     *)
(***************************************************************************)
\* the system profiles the daemon knows, and the fan profile and keyboard profile each one
\* references in the JSON getActiveProfileJSON returns; the second profile stores its
\* keyboard profile by display name, as older daemons do
ProfileIds == {"p1", "p2"}

ProfileFan == [id \in ProfileIds |-> IF id = "p1" THEN "f1" ELSE "f2"]

ProfileKeyboard == [id \in ProfileIds |-> IF id = "p1" THEN "k1" ELSE "Game"]

\* the fan profiles the tray menu offers
FanProfileIds == {"f1", "f2", "f3"}

\* m_keyboardProfileIds and m_keyboardProfileNames, index by index
KeyboardProfileIds == <<"k1", "k2", "k3">>

KeyboardProfileNames == <<"Work", "Game", "Night">>

\* QStringList::indexOf, with positions from 1 and 0 for "not found"
IndexOfString(list, value) ==
  IF \E i \in 1..Len(list) : list[i] = value
    THEN CHOOSE i \in 1..Len(list) : list[i] = value /\ \A j \in 1..(i - 1) : list[j] # value
    ELSE 0

resolveKeyboardProfileId(daemonValue) ==
  IF daemonValue = "" THEN ""
  ELSE IF IndexOfString(KeyboardProfileIds, daemonValue) > 0 THEN daemonValue
  ELSE LET idx == IndexOfString(KeyboardProfileNames, daemonValue)
       IN IF idx > 0 THEN KeyboardProfileIds[idx] ELSE daemonValue

\* pollSlowState, the part that reads the active profile: json is whether
\* getActiveProfileJSON returned an object, wc whether isWaterCoolerEnabled returned a value
pollSlowState(t, d, json, wc) ==
  IF ~json THEN t
  ELSE
    LET newId == d.activeProfile
        profileSwitched == newId # t.activeProfileId
        t1 == [t EXCEPT !.activeProfileId = newId,
                        !.fanProfileOverride = IF profileSwitched THEN FALSE ELSE @,
                        !.keyboardProfileOverride = IF profileSwitched THEN FALSE ELSE @,
                        !.wcEnabledOverride = IF profileSwitched THEN FALSE ELSE @]
        fanId == ProfileFan[newId]
        wcEn == IF wc THEN d.waterCooler ELSE t1.wcEnabled
        t2 == IF ~t1.wcEnabledOverride THEN [t1 EXCEPT !.wcEnabled = wcEn] ELSE t1
        t3 == IF ~t2.fanProfileOverride /\ fanId # t2.activeProfileFanId
                THEN [t2 EXCEPT !.activeProfileFanId = fanId] ELSE t2
        kbId == resolveKeyboardProfileId(ProfileKeyboard[newId])
    IN IF ~t3.keyboardProfileOverride /\ kbId # t3.activeProfileKeyboardId
         THEN [t3 EXCEPT !.activeProfileKeyboardId = kbId] ELSE t3

\* what a handler leaves in "last": its name, whether m_activeProfileId changed in it,
\* whether its pollSlowState read a profile, and whether the water-cooler state was reported
Handled(t, before, op, polled, wc) ==
  [t EXCEPT !.last = [op |-> op, switched |-> t.activeProfileId # before.activeProfileId,
                      polled |-> polled, wcReported |-> polled /\ wc]]

\* the constructor: the initial data load ends with pollSlowState
InitTray ==
  /\ CpuIdle /\ AuthIdle /\ StoreIdle /\ LockIdle /\ WorkerIdle /\ SysfsIdle /\ PollIdle
  /\ \E id \in ProfileIds, wcState \in BOOLEAN, json \in BOOLEAN, wc \in BOOLEAN :
       /\ daemon = [activeProfile |-> id, waterCooler |-> wcState, signal |-> "none"]
       /\ tray = pollSlowState(NewTray, daemon, json, wc)

\* the slow timer fires
PollSlowState ==
  \E json \in BOOLEAN, wc \in BOOLEAN :
    /\ tray' = Handled(pollSlowState(tray, daemon, json, wc), tray, "pollSlowState", json, wc)
    /\ UNCHANGED <<daemon, cpuVars, authVars, storeVars, lockVars, workerVars, sysfsVars, pollVars>>

\* setActiveProfile: ok is the result of the client call; a daemon that switches announces it
SetActiveProfile ==
  \E profileId \in ProfileIds, ok \in BOOLEAN, json \in BOOLEAN, wc \in BOOLEAN :
    /\ daemon' = IF ok THEN [daemon EXCEPT !.activeProfile = profileId, !.signal = profileId]
                 ELSE daemon
    /\ tray' = IF ok
                 THEN Handled(pollSlowState([tray EXCEPT !.activeProfileId = profileId],
                                            daemon', json, wc),
                              tray, "setActiveProfile", json, wc)
                 ELSE Handled(tray, tray, "setActiveProfile", FALSE, FALSE)
    /\ UNCHANGED <<cpuVars, authVars, storeVars, lockVars, workerVars, sysfsVars, pollVars>>

\* the daemon's profileChanged signal is delivered
OnDaemonProfileChanged ==
  \E json \in BOOLEAN, wc \in BOOLEAN :
    /\ daemon.signal # "none"
    /\ daemon' = [daemon EXCEPT !.signal = "none"]
    /\ tray' = IF daemon.signal # tray.activeProfileId
                 THEN Handled(pollSlowState([tray EXCEPT !.activeProfileId = daemon.signal],
                                            daemon, json, wc),
                              tray, "onDaemonProfileChanged", json, wc)
                 ELSE Handled(tray, tray, "onDaemonProfileChanged", FALSE, FALSE)
    /\ UNCHANGED <<cpuVars, authVars, storeVars, lockVars, workerVars, sysfsVars, pollVars>>

\* setActiveFanProfile: the curves go to the hardware, the daemon's stored profile stays
SetActiveFanProfile ==
  \E fanProfileId \in FanProfileIds :
    /\ tray' = Handled([tray EXCEPT !.fanProfileOverride = TRUE,
                                    !.activeProfileFanId = fanProfileId],
                       tray, "setActiveFanProfile", FALSE, FALSE)
    /\ UNCHANGED <<daemon, cpuVars, authVars, storeVars, lockVars, workerVars, sysfsVars, pollVars>>

SetActiveKeyboardProfile ==
  \E p \in 1..Len(KeyboardProfileIds) :
    /\ tray' = Handled([tray EXCEPT !.keyboardProfileOverride = TRUE,
                                    !.activeProfileKeyboardId = KeyboardProfileIds[p]],
                       tray, "setActiveKeyboardProfile", FALSE, FALSE)
    /\ UNCHANGED <<daemon, cpuVars, authVars, storeVars, lockVars, workerVars, sysfsVars, pollVars>>

\* setWcEnabled: the result of enableWaterCooler is not looked at
SetWcEnabled ==
  \E enabled \in BOOLEAN, ok \in BOOLEAN :
    /\ daemon' = IF ok THEN [daemon EXCEPT !.waterCooler = enabled] ELSE daemon
    /\ tray' = Handled([tray EXCEPT !.wcEnabled = enabled, !.wcEnabledOverride = TRUE],
                       tray, "setWcEnabled", FALSE, FALSE)
    /\ UNCHANGED <<cpuVars, authVars, storeVars, lockVars, workerVars, sysfsVars, pollVars>>

\* another client, or the daemon itself, switches the system profile or the water cooler
DaemonSwitchesProfile ==
  \E id \in ProfileIds :
    /\ id # daemon.activeProfile
    /\ daemon' = [daemon EXCEPT !.activeProfile = id, !.signal = id]
    /\ tray' = [tray EXCEPT !.last = NoHandler]
    /\ UNCHANGED <<cpuVars, authVars, storeVars, lockVars, workerVars, sysfsVars, pollVars>>

DaemonSwitchesWaterCooler ==
  /\ daemon' = [daemon EXCEPT !.waterCooler = ~@]
  /\ tray' = [tray EXCEPT !.last = NoHandler]
  /\ UNCHANGED <<cpuVars, authVars, storeVars, lockVars, workerVars, sysfsVars, pollVars>>

NextTray ==
  \/ PollSlowState
  \/ SetActiveProfile
  \/ OnDaemonProfileChanged
  \/ SetActiveFanProfile
  \/ SetActiveKeyboardProfile
  \/ SetWcEnabled
  \/ DaemonSwitchesProfile
  \/ DaemonSwitchesWaterCooler

SpecTray == InitTray /\ [][NextTray]_vars

(***************************************************************************)
(* Claims about the effective-frequency functions (SpecEff)                *)
(***************************************************************************)
InRange(v, lo, hi) == lo <= v /\ v <= hi

\* C1 as stated: for every readable core and every max target the effective max lies in
\* [scalingMinFreq, cpuinfoMaxFreq] and, if the available list is non-empty, is a member of it
C1_AsStated ==
  (eff.op = "max" /\ cores[1].hasFreq) =>
     /\ eff.res.has
     /\ InRange(eff.res.v, cores[1].scalingMinFreq, cores[1].cpuinfoMaxFreq)
     /\ (cores[1].avail # <<>> => eff.res.v \in Range(cores[1].avail))

\* C1 amended: the effective max lies in [scalingMinFreq, cpuinfoMaxFreq] for every target,
\* and it is a member of the available list whenever the list holds a value >= scalingMinFreq
C1_EffectiveMaxInRange ==
  (eff.op = "max" /\ cores[1].hasFreq) =>
     /\ eff.res.has
     /\ InRange(eff.res.v, cores[1].scalingMinFreq, cores[1].cpuinfoMaxFreq)
     /\ ((\E f \in Range(cores[1].avail) : f >= cores[1].scalingMinFreq)
           => eff.res.v \in Range(cores[1].avail))

\* C1 witness: an explicit target that is no list value was clamped and snapped into a list
\* that also holds values below scalingMinFreq
C1_Witness ==
  /\ eff.op = "max" /\ cores[1].hasFreq /\ eff.target.has /\ eff.target.v > 0
  /\ eff.target.v \notin Range(cores[1].avail)
  /\ \E f \in Range(cores[1].avail) : f < cores[1].scalingMinFreq
  /\ eff.res.v \in Range(cores[1].avail)
  /\ eff.res.v # eff.target.v

\* C2 as stated: for every readable core and every min target the effective min lies in
\* [cpuinfoMinFreq, scalingMaxFreq] and, if the available list is non-empty, is a member of it
C2_AsStated ==
  (eff.op = "min" /\ cores[1].hasFreq) =>
     /\ eff.res.has
     /\ InRange(eff.res.v, cores[1].cpuinfoMinFreq, cores[1].scalingMaxFreq)
     /\ (cores[1].avail # <<>> => eff.res.v \in Range(cores[1].avail))

(***************************************************************************)
(* Claims about the controller operations (Spec)                           *)
(***************************************************************************)
\* C3 as stated: starting with cpuinfoMin <= scalingMin <= scalingMax <= cpuinfoMax on every
\* core, after any sequence of max / min frequency requests every core has
\* scalingMin <= scalingMax and both lie within [cpuinfoMin, cpuinfoMax]
C3_AsStated ==
  \A i \in 1..Len(cores) :
    cores[i].hasFreq =>
      /\ cores[i].scalingMinFreq <= cores[i].scalingMaxFreq
      /\ InRange(cores[i].scalingMinFreq, cores[i].cpuinfoMinFreq, cores[i].cpuinfoMaxFreq)
      /\ InRange(cores[i].scalingMaxFreq, cores[i].cpuinfoMinFreq, cores[i].cpuinfoMaxFreq)

\* C8: useCores(0) acts as useCores(1), a count above the number of cores acts as that
\* number, and no request writes false to core 0's online register, which stays online
C8_CoreZeroNeverOffline ==
  /\ cores[1].online
  /\ \A n \in CountRequests : \A w \in useCores(cores, n).writes : ~(w.pos = 0 /\ ~w.b)
  /\ useCores(cores, Some(0)) = useCores(cores, Some(1))
  /\ \A n \in CountRequests :
       (n.has /\ n.v > Len(cores)) => useCores(cores, n) = useCores(cores, Some(Len(cores)))

\* C8 witness: core 0 has an online register and is online after a useCores call that
\* left every other core offline
C8_Witness ==
  /\ lastOp = "useCores"
  /\ cores[1].onlineAvail /\ cores[1].online
  /\ \A i \in 2..Len(cores) : cores[i].onlineAvail /\ ~cores[i].online

\* the effective count of useCores(n): n clamped to [1, number of cores], all cores if absent
EffectiveCount(n, total) ==
  IF ~n.has THEN total ELSE IF n.v < 1 THEN 1 ELSE IF n.v > total THEN total ELSE n.v

\* C9: after useCores(n) with effective count k every core at position i >= 1 that has an
\* online register is online iff i < k, and cores without the register are untouched
C9_OnlineIffWithinCount ==
  \A n \in CountRequests :
    LET k    == EffectiveCount(n, Len(cores))
        post == useCores(cores, n).cores
    IN /\ Len(post) = Len(cores)
       /\ \A p \in 2..Len(cores) :
            IF cores[p].onlineAvail
              THEN post[p] = [cores[p] EXCEPT !.online = (p - 1 < k)]
              ELSE post[p] = cores[p]

\* C9 witness: a useCores call has just set a core beyond the count offline
C9_Witness ==
  /\ lastOp = "useCores"
  /\ \E p \in 2..Len(cores) : cores[p].onlineAvail /\ ~cores[p].online
  /\ \E n \in CountRequests : n.has /\ useCores(cores, n).cores = cores

\* C10: applying the same max / min / governor / EPP request a second time leaves every
\* core's registers and the boost register as the first application left them
C10_Idempotent ==
  /\ \A t \in Targets(TopFreq) :
       LET r1 == setGovernorScalingMaxFrequency(cores, boost, t)
           r2 == setGovernorScalingMaxFrequency(r1.cores, r1.boost, t)
       IN r2.cores = r1.cores /\ r2.boost = r1.boost
  /\ \A t \in Targets(TopFreq) :
       LET r1 == setGovernorScalingMinFrequency(cores, t)
       IN setGovernorScalingMinFrequency(r1.cores, t).cores = r1.cores
  /\ \A g \in GovernorRequests :
       LET r1 == setGovernor(cores, g)
       IN setGovernor(r1.cores, g).cores = r1.cores
  /\ \A e \in PreferenceRequests :
       LET r1 == setEnergyPerformancePreference(cores, e)
       IN setEnergyPerformancePreference(r1.cores, e).cores = r1.cores

\* C10 witness: a max request has lowered a core's scaling maximum, and the registers are
\* what applying that request leaves
C10_Witness ==
  /\ lastOp = "setMax"
  /\ \E p \in 1..Len(cores) : cores[p].hasFreq /\ cores[p].scalingMaxFreq < cores[p].cpuinfoMaxFreq
  /\ \E t \in Targets(TopFreq) :
       LET r == setGovernorScalingMaxFrequency(cores, boost, t)
       IN t.has /\ r.cores = cores /\ r.boost = boost

(***************************************************************************)
(* Claims about checkAuthorization (SpecAuth)                              *)
(***************************************************************************)
\* C4: checkAuthorization fails closed. When the PID lookup reply is invalid, when the
\* policy authority answers with an error, or when anything throws inside the call, the
\* call returns false, and no exception leaves the call.
C4_FailsClosed ==
  call.made =>
    /\ ~call.out.thrown
    /\ ( \/ ~call.env.pidReply.valid
         \/ call.env.polkitReply.kind = "error"
         \/ call.env.throwAt # "none" ) => ~call.out.result

\* a call in which the PID is known and the authority grants, but decoding the reply throws
C4_Witness ==
  /\ call.made
  /\ call.env.pidReply.valid
  /\ call.env.polkitReply.kind = "reply" /\ call.env.polkitReply.isAuthorized
  /\ call.env.throwAt = "decode"
  /\ ~call.out.result /\ ~call.out.thrown

\* C5: the call returns true only if the PID lookup succeeded, the authority was asked
\* about exactly that PID and the requested action, and its reply says is_authorized;
\* a reply with is_authorized = false gives false whatever is_challenge says; and the
\* authority is never asked when the PID lookup failed.
C5_TrueOnlyWhenAuthorized ==
  call.made =>
    /\ call.out.result =>
         /\ call.env.pidReply.valid
         /\ call.out.queried
         /\ call.out.queriedPid = call.env.pidReply.pid
         /\ call.out.queriedAction = call.env.actionId
         /\ call.env.polkitReply.kind = "reply"
         /\ call.env.polkitReply.isAuthorized
    /\ (call.env.polkitReply.kind = "reply" /\ ~call.env.polkitReply.isAuthorized)
         => ~call.out.result
    /\ ~call.env.pidReply.valid => ~call.out.queried

\* a call answered "not authorized, but a challenge would help", which is refused
C5_Witness ==
  /\ call.made
  /\ call.env.pidReply.valid
  /\ call.env.throwAt = "none"
  /\ call.out.queried
  /\ call.env.polkitReply.kind = "reply"
  /\ ~call.env.polkitReply.isAuthorized /\ call.env.polkitReply.isChallenge
  /\ ~call.out.result

(***************************************************************************)
(* Claims about the metrics store (SpecStore)                              *)
(***************************************************************************)
\* C6: right after push(id, now, value) every sample in the buffer of metric id has a
\* timestamp of at least now - horizonMs, whatever pushes and horizon settings came before.
C6_AsStated ==
  (storeLast.op = "push" /\ storeLast.id < METRIC_COUNT) =>
    \A k \in 1..Len(buffers[storeLast.id]) :
      buffers[storeLast.id][k].timestampMs >= storeLast.now - horizonMs

\* the stored pairs of buf with a timestamp of at least sinceMs, in insertion order
StoredSince(buf, sinceMs) ==
  LET kept == SelectSeq(buf, LAMBDA pt : pt.timestampMs >= sinceMs)
  IN [k \in 1..Len(kept) |-> QPointF(kept[k].timestampMs, kept[k].value)]

\* C7: decoding the bytes of querySinceBinary(cursor) gives, for each metric, exactly the
\* stored (timestamp, value) pairs with a timestamp of at least the cursor, in insertion
\* order, and nothing for any other metric.
C7_AsStated ==
  storeLast.op = "query" =>
    \A i \in MetricIds : decoded.buffers[i] = StoredSince(buffers[i], wire.since)

\* 1-based index of the first sample of buf with a timestamp of at least sinceMs,
\* Len(buf) + 1 when there is none
FirstSince(buf, sinceMs) ==
  SetMin({ k \in 1..Len(buf) : buf[k].timestampMs >= sinceMs } \cup {Len(buf) + 1})

\* C11: a query returns, for each metric, exactly the suffix of the buffer that starts at
\* the first sample with a timestamp of at least the cursor, that suffix holds every
\* sample at or after the cursor and none before it, and a metric without such a sample
\* does not appear in the reply.
C11_AsStated ==
  storeLast.op = "query" =>
    \A i \in MetricIds :
      LET buf    == buffers[i]
          first  == FirstSince(buf, wire.since)
          suffix == SubSeq(buf, first, Len(buf))
      IN /\ decoded.buffers[i] =
              [k \in 1..Len(suffix) |-> QPointF(suffix[k].timestampMs, suffix[k].value)]
         /\ \A k \in 1..Len(suffix) : suffix[k].timestampMs >= wire.since
         /\ \A k \in 1..(first - 1) : buf[k].timestampMs < wire.since

\* C13: in every reachable state of the store the timestamps of each metric's buffer are
\* non-decreasing from front to back.
C13_AsStated ==
  \A i \in MetricIds :
    \A k \in 1..(Len(buffers[i]) - 1) :
      buffers[i][k].timestampMs <= buffers[i][k + 1].timestampMs

(***************************************************************************)
(* Reading the two reply formats back (for the claims that compare them)   *)
(***************************************************************************)
RECURSIVE NormalizeDecimal(_, _, _)
\* the number (-1)^neg * s * 10^e with s free of trailing zeros
NormalizeDecimal(neg, s, e) ==
  IF s = 0 THEN [neg |-> neg, s |-> 0, e |-> 0]
  ELSE IF s % 10 = 0 THEN NormalizeDecimal(neg, s \div 10, e + 1)
  ELSE [neg |-> neg, s |-> s, e |-> e]

IsDigit(c) == \E d \in 0..9 : DigitChars[d + 1] = c

DigitValue(c) == CHOOSE d \in 0..9 : DigitChars[d + 1] = c

RECURSIVE ScanNumber(_, _, _)
\* a JSON number read from position p: sign, digits, fraction, exponent
ScanNumber(text, p, acc) ==
  IF p > Len(text) THEN [acc EXCEPT !.p = p]
  ELSE LET c == text[p] IN
    IF c = "-" THEN ScanNumber(text, p + 1,
                               IF acc.inExp THEN [acc EXCEPT !.eneg = TRUE]
                               ELSE [acc EXCEPT !.neg = TRUE])
    ELSE IF c = "+" THEN ScanNumber(text, p + 1, acc)
    ELSE IF c = "." THEN ScanNumber(text, p + 1, [acc EXCEPT !.inFrac = TRUE])
    ELSE IF c = "e" THEN ScanNumber(text, p + 1, [acc EXCEPT !.inExp = TRUE])
    ELSE IF IsDigit(c)
      THEN ScanNumber(text, p + 1,
                      IF acc.inExp THEN [acc EXCEPT !.e = 10 * @ + DigitValue(c)]
                      ELSE [acc EXCEPT !.s = 10 * @ + DigitValue(c),
                                       !.f = IF acc.inFrac THEN @ + 1 ELSE @])
    ELSE [acc EXCEPT !.p = p]

ReadNumber(text, p) ==
  LET r == ScanNumber(text, p, [neg |-> FALSE, s |-> 0, f |-> 0, inFrac |-> FALSE,
                                inExp |-> FALSE, eneg |-> FALSE, e |-> 0, p |-> p])
  IN [val |-> NormalizeDecimal(r.neg, r.s, (IF r.eneg THEN -r.e ELSE r.e) - r.f), p |-> r.p]

RECURSIVE ReadPoints(_, _, _)
\* the array of [ts, val] pairs that starts after the "[" before position p
ReadPoints(text, p, pts) ==
  IF text[p] = "]" THEN [points |-> pts, p |-> p + 1]
  ELSE IF text[p] = "," THEN ReadPoints(text, p + 1, pts)
  ELSE LET x == ReadNumber(text, p + 1)
           y == ReadNumber(text, x.p + 1)
       IN ReadPoints(text, y.p + 1, Append(pts, [x |-> x.val, y |-> y.val]))

RECURSIVE ReadSeries(_, _, _)
\* the members "name":[...] of the object, from position p
ReadSeries(text, p, out) ==
  IF text[p] = "}" THEN out
  ELSE IF text[p] = "," THEN ReadSeries(text, p + 1, out)
  ELSE LET r == ReadPoints(text, p + 5, <<>>)
       IN ReadSeries(text, r.p, Append(out, [key |-> text[p + 1], points |-> r.points]))

\* the series of a querySinceJSON reply, in the order of the text
ReadJSON(text) == ReadSeries(text, 2, <<>>)

RECURSIVE ReadBinary(_, _)
\* the series of a querySinceBinary reply by the documented layout, in the order of the bytes
ReadBinary(data, p) ==
  IF p + 5 > Len(data) THEN <<>>
  ELSE LET count == LEUnsigned(SubSeq(data, p + 2, p + 5))
       IN IF p + 5 + count * 16 > Len(data) THEN <<>>
          ELSE <<[id |-> data[p + 1],
                  points |-> DecodePoints(data, p + 5, count, TRUE, <<>>, 0).buf]>>
               \o ReadBinary(data, p + 5 + count * 16)

\* the stored value of v as a number
ExactValue(v) == LET d == DoubleDecimal(v) IN NormalizeDecimal(d.neg, d.n, -d.k)

\* the value of v at the six significant digits the text stream prints
PrintedValue(v) ==
  LET d == DoubleDecimal(v)
      r == RoundSignificant(d.n, d.k)
  IN NormalizeDecimal(d.neg, r.s, r.x - (r.w - 1))

\* binary series named and valued as a JSON reply names and values them, Val giving the
\* number a stored double stands for
SeriesAsJSON(series, Val(_)) ==
  [k \in 1..Len(series) |->
     [key |-> metricName(series[k].id),
      points |-> [j \in 1..Len(series[k].points) |->
                    [x |-> NormalizeDecimal(series[k].points[j].x < 0,
                                            Abs(series[k].points[j].x), 0),
                     y |-> Val(series[k].points[j].y)]]]]

\* C12 as stated: for the same store state and cursor the JSON reply and the binary reply
\* carry the same metrics in the same order, each with the same (timestamp, value) samples.
C12_AsStated ==
  storeLast.op = "queryJSON" =>
    ReadJSON(jsonReply.text)
      = SeriesAsJSON(ReadBinary(querySinceBinary(buffers, jsonReply.since), 0), ExactValue)

\* C12 (amended): for the same store state and cursor the JSON reply and the binary reply
\* carry the same metrics in the same order, each with the same number of samples and the
\* same timestamps in the same order; each JSON value is the binary value rounded to six
\* significant digits.
C12_SameSelection ==
  storeLast.op = "queryJSON" =>
    ReadJSON(jsonReply.text)
      = SeriesAsJSON(ReadBinary(querySinceBinary(buffers, jsonReply.since), 0), PrintedValue)

\* C12 witness: a JSON reply that leaves out an older sample of a metric and carries a
\* value that six digits do not hold
C12_Witness ==
  /\ storeLast.op = "queryJSON"
  /\ \E i \in MetricIds :
       LET first == FirstSince(buffers[i], jsonReply.since)
       IN /\ 1 < first /\ first <= Len(buffers[i])
          /\ \E k \in first..Len(buffers[i]) :
               ExactValue(buffers[i][k].value) # PrintedValue(buffers[i][k].value)
  /\ Len(ReadJSON(jsonReply.text)) >= 1

\* C14: the horizon is 1800 s until setHorizon is called, it is always within
\* [60 s, 7200 s], and after setHorizon(s) horizonSeconds() is s clamped to [60, 7200].
C14_HorizonClamped ==
  /\ horizonSeconds(horizonMs) = DEFAULT_HORIZON_S
  /\ [](MIN_HORIZON_S <= horizonSeconds(horizonMs) /\ horizonSeconds(horizonMs) <= MAX_HORIZON_S)
  /\ [][ /\ storeLast'.op = "setHorizon" =>
              horizonSeconds(horizonMs') = Clamp(storeLast'.now, MIN_HORIZON_S, MAX_HORIZON_S)
         /\ storeLast'.op # "setHorizon" => horizonMs' = horizonMs ]_vars

\* C14 witness: a request above the range has been made and the horizon is the upper limit
C14_Witness ==
  /\ storeLast.op = "setHorizon"
  /\ storeLast.now > MAX_HORIZON_S
  /\ horizonSeconds(horizonMs) = MAX_HORIZON_S

\* the points a client with empty series gets from a binary query since 0
QueryAll(bufs) == applyBinaryData(querySinceBinary(bufs, 0), EmptyBuffers, 0).buffers

\* C15: setHorizon changes no buffer, and a query after it still returns every sample that
\* was stored before it, also those older than the new horizon; a push changes only the
\* buffer of the metric pushed.
C15_HorizonFrame ==
  [][ /\ storeLast'.op = "setHorizon" =>
           /\ buffers' = buffers
           /\ QueryAll(buffers') =
                [i \in MetricIds |->
                   [k \in 1..Len(buffers[i]) |->
                      QPointF(buffers[i][k].timestampMs, buffers[i][k].value)]]
      /\ storeLast'.op = "push" =>
           \A i \in MetricIds \ {storeLast'.id} : buffers'[i] = buffers[i] ]_vars

\* C15 witness: a push on one metric has left in another metric's buffer a sample older
\* than the horizon, counted from the pushed timestamp
C15_Witness ==
  /\ storeLast.op = "push"
  /\ storeLast.id < METRIC_COUNT
  /\ \E i \in MetricIds \ {storeLast.id} :
       /\ buffers[i] # <<>>
       /\ buffers[i][1].timestampMs < storeLast.now - horizonMs

(***************************************************************************)
(* Claims about concurrent producers (SpecLock)                            *)
(***************************************************************************)
\* C16: a producer that pushes one metric never waits for the lock because another
\* producer is inside a push on a different metric.
C16_AsStated ==
  \A p \in ProducerIds, q \in ProducerIds :
    ~ ( /\ p # q
        /\ producers[p].pc = "lock"
        /\ mutex.writer = q
        /\ producers[q].id # producers[p].id )

(***************************************************************************)
(* Claims about the hardware monitor worker (SpecWorker)                   *)
(***************************************************************************)
\* C17: on every tick GPU sampling and CPU-frequency sampling run; CPU package power runs
\* on every 3rd tick exactly (first within the first three ticks, then three ticks after
\* its last run, never otherwise); Prime status runs on every 12th tick exactly when the
\* switching utility was detected at start and never when it was not; and a sub-task whose
\* hardware is absent runs all the same and delivers its sentinel.
C17_TickCadence ==
  [][ worker'.cycle = worker.cycle + 1 =>
        /\ {"gpu", "cpuFrequency"} \subseteq worker'.ran
        /\ "cpuPower" \in worker'.ran <=>
             (worker.sincePower = 2 \/ (worker.sincePower = -1 /\ worker.cycle % 3 = 0))
        /\ worker'.sincePower = -1 => worker'.cycle < 3
        /\ "prime" \in worker'.ran <=>
             /\ worker.primeSupported
             /\ worker.sincePrime = 11 \/ (worker.sincePrime = -1 /\ worker.cycle % 12 = 0)
        /\ (worker.primeSupported /\ worker'.sincePrime = -1) => worker'.cycle < 12
        /\ \A t \in worker'.ran : t \notin worker.hw => t \in worker'.sentinels ]_vars

\* C17 witness: the 13th tick on a machine without GPU and without RAPL, with the switching
\* utility: all four sub-tasks ran, GPU and power delivered sentinels
C17_Witness ==
  /\ worker.cycle = 13
  /\ worker.primeSupported
  /\ worker.ran = {"gpu", "cpuFrequency", "cpuPower", "prime"}
  /\ worker.sentinels = {"gpu", "cpuPower"}

(***************************************************************************)
(* Claims about governor and EPP requests (SpecGov)                        *)
(***************************************************************************)
\* C18: setGovernor and setEnergyPerformancePreference write to a core's register only the
\* requested value and only when that core's own available list holds it; a core whose list
\* lacks the request (or any core, when the request is absent) keeps its register; so every
\* register always holds a value of its core's list.
C18_OnlyListedValues ==
  /\ \A i \in 1..Len(cores) :
       /\ cores[i].hasGov => cores[i].gov \in Range(cores[i].availGovs)
       /\ cores[i].hasEpp => cores[i].epp \in Range(cores[i].availEpps)
  /\ \A g \in GovernorRequests :
       LET r == setGovernor(cores, g)
       IN /\ \A w \in r.writes :
               /\ w.reg = "scalingGovernor" /\ w.s = g.v
               /\ w.s \in Range(cores[w.pos + 1].availGovs)
          /\ \A i \in 1..Len(cores) :
               /\ (~g.has \/ g.v \notin Range(cores[i].availGovs)) => r.cores[i] = cores[i]
               /\ r.cores[i] # cores[i] => WrStr("scalingGovernor", i - 1, r.cores[i].gov) \in r.writes
  /\ \A e \in PreferenceRequests :
       LET r == setEnergyPerformancePreference(cores, e)
       IN /\ \A w \in r.writes :
               /\ w.reg = "energyPerformancePreference" /\ w.s = e.v
               /\ w.s \in Range(cores[w.pos + 1].availEpps)
          /\ \A i \in 1..Len(cores) :
               /\ (~e.has \/ e.v \notin Range(cores[i].availEpps)) => r.cores[i] = cores[i]
               /\ r.cores[i] # cores[i] =>
                    WrStr("energyPerformancePreference", i - 1, r.cores[i].epp) \in r.writes

\* C18 witness: after a governor request core 0 runs "powersave" while an online core with
\* a governor register that lists only "performance" still runs "performance"
C18_Witness ==
  /\ lastOp = "setGovernor"
  /\ cores[1].gov = "powersave"
  /\ \E i \in 2..Len(cores) :
       /\ cores[i].hasGov /\ ReadOnline(cores[i])
       /\ "powersave" \notin Range(cores[i].availGovs)
       /\ cores[i].gov = "performance"

\* a core the claim says a request must reach: it has the register and its list, it is
\* online (core 0 needs no online register), and its list holds the value
GovEligible(core, governor) ==
  /\ core.hasGov
  /\ core.coreIndex = 0 \/ ReadOnline(core)
  /\ governor \in Range(core.availGovs)

EppEligible(core, preference) ==
  /\ core.hasEpp
  /\ core.coreIndex = 0 \/ ReadOnline(core)
  /\ preference \in Range(core.availEpps)

\* C19: after setGovernor / setEnergyPerformancePreference every core that has both
\* registers, is online (core 0 exempt) and lists the requested value holds that value,
\* whatever happened at the cores before it.
C19_AsStated ==
  /\ \A g \in GovernorRequests : g.has =>
       \A i \in 1..Len(cores) :
         GovEligible(cores[i], g.v) => setGovernor(cores, g).cores[i].gov = g.v
  /\ \A e \in PreferenceRequests : e.has =>
       \A i \in 1..Len(cores) :
         EppEligible(cores[i], e.v) => setEnergyPerformancePreference(cores, e).cores[i].epp = e.v

(***************************************************************************)
(* Claims about the agreement of validation and application (Spec)         *)
(***************************************************************************)
\* a core the frequency setters process: it has the four frequency registers and is online
\* (core 0 needs no online register)
FreqProcessed(core) == core.hasFreq /\ (core.coreIndex = 0 \/ ReadOnline(core))

\* the acpiFallback of a call: the boost toggle exists and the first processed core reports
\* the driver acpi-cpufreq
CallAcpiFallback(cs, bst) ==
  /\ bst.avail
  /\ \E i \in 1..Len(cs) :
       /\ FreqProcessed(cs[i]) /\ cs[i].driver = "acpi-cpufreq"
       /\ \A j \in 1..(i - 1) : ~FreqProcessed(cs[j])

\* C20: for every target t, each value setGovernorScalingMaxFrequency(t) writes to a core is
\* computeEffectiveMaxFreq of that core as it was before the call, t and the call's
\* acpiFallback, and it writes to exactly the processed cores for which that value exists;
\* likewise setGovernorScalingMinFrequency and computeEffectiveMinFreq.
C20_WriteIsEffective ==
  \A t \in Targets(TopFreq) :
    LET rmax == setGovernorScalingMaxFrequency(cores, boost, t)
        rmin == setGovernorScalingMinFrequency(cores, t)
        acpiFallback == CallAcpiFallback(cores, boost)
    IN \A i \in 1..Len(cores) :
         LET emax == computeEffectiveMaxFreq(cores[i], t, acpiFallback)
             emin == computeEffectiveMinFreq(cores[i], t)
             wmax == { w \in rmax.writes : w.reg = "scalingMaxFreq" /\ w.pos = i - 1 }
             wmin == { w \in rmin.writes : w.pos = i - 1 }
         IN /\ IF FreqProcessed(cores[i]) /\ emax.has
                 THEN /\ wmax = {WrInt("scalingMaxFreq", i - 1, emax.v)}
                      /\ rmax.cores[i] = [cores[i] EXCEPT !.scalingMaxFreq = emax.v]
                 ELSE wmax = {} /\ rmax.cores[i] = cores[i]
            /\ IF FreqProcessed(cores[i]) /\ emin.has
                 THEN /\ wmin = {WrInt("scalingMinFreq", i - 1, emin.v)}
                      /\ rmin.cores[i] = [cores[i] EXCEPT !.scalingMinFreq = emin.v]
                 ELSE wmin = {} /\ rmin.cores[i] = cores[i]

\* C20 witness: a max-frequency request has been applied on a machine whose acpiFallback
\* holds and decides the effective value of some target, with a second processed core
\* whose scaling limits differ from core 0's
C20_Witness ==
  /\ lastOp = "setMax"
  /\ CallAcpiFallback(cores, boost)
  /\ \E t \in Targets(TopFreq) :
       computeEffectiveMaxFreq(cores[1], t, TRUE) # computeEffectiveMaxFreq(cores[1], t, FALSE)
  /\ \E i \in 2..Len(cores) :
       /\ FreqProcessed(cores[i])
       /\ cores[i].scalingMinFreq # cores[1].scalingMinFreq

(***************************************************************************)
(* Claims about frequency snapping (SpecEff)                               *)
(***************************************************************************)
\* the target of the last max evaluation after sentinel resolution and clamping
ClampedMaxTarget(core, e) ==
  LET resolved == IF ~e.target.has THEN core.cpuinfoMaxFreq
                  ELSE IF e.target.v = -1
                         THEN IF e.acpi THEN core.cpuinfoMaxFreq
                              ELSE IF core.avail = <<>>
                                     THEN (core.cpuinfoMinFreq + core.cpuinfoMaxFreq) \div 2
                                     ELSE core.avail[(Len(core.avail) \div 2) + 1]
                         ELSE e.target.v
  IN IF resolved < core.scalingMinFreq THEN core.scalingMinFreq
     ELSE IF resolved > core.cpuinfoMaxFreq THEN core.cpuinfoMaxFreq
     ELSE resolved

\* the list values the max snap may choose from
MaxCandidates(core) == { f \in Range(core.avail) : f >= core.scalingMinFreq }

IsAscending(s) == \A i \in 1..(Len(s) - 1) : s[i] < s[i + 1]

\* C21 as stated: for every non-empty available list, in whatever order the register
\* reports it, and every clamped target, the effective max is a value of the filtered list
\* with minimum absolute distance to the clamped target
C21_AsStated ==
  (eff.op = "max" /\ cores[1].hasFreq /\ MaxCandidates(cores[1]) # {}) =>
     LET t == ClampedMaxTarget(cores[1], eff)
     IN /\ eff.res.v \in MaxCandidates(cores[1])
        /\ \A f \in MaxCandidates(cores[1]) : Abs(eff.res.v - t) <= Abs(f - t)

\* the clamped target of the last max evaluation lies strictly between the values lo < hi,
\* neighbours in the filtered list
Between(core, e, lo, hi) ==
  /\ lo \in MaxCandidates(core) /\ hi \in MaxCandidates(core)
  /\ lo < ClampedMaxTarget(core, e) /\ ClampedMaxTarget(core, e) < hi
  /\ \A f \in MaxCandidates(core) : f <= lo \/ f >= hi

\* C22 as stated: with the clamped target strictly between two adjacent list values, the
\* lower one is the effective max only when it is strictly closer; otherwise, an exact tie
\* included, the upper one is
C22_AsStated ==
  (eff.op = "max" /\ cores[1].hasFreq /\ IsAscending(cores[1].avail)) =>
     \A lo \in 1..MaxFreq, hi \in 1..MaxFreq :
       Between(cores[1], eff, lo, hi) =>
         LET t == ClampedMaxTarget(cores[1], eff)
         IN eff.res.v = (IF t - lo < hi - t THEN lo ELSE hi)

\* C22 amended: with an ascending list and the clamped target strictly between two adjacent
\* list values, the upper one is the effective max only when it is strictly closer;
\* otherwise, an exact tie included, the lower one is
C22_TieGoesDown ==
  (eff.op = "max" /\ cores[1].hasFreq /\ IsAscending(cores[1].avail)) =>
     \A lo \in 1..MaxFreq, hi \in 1..MaxFreq :
       Between(cores[1], eff, lo, hi) =>
         LET t == ClampedMaxTarget(cores[1], eff)
         IN eff.res.v = (IF hi - t < t - lo THEN hi ELSE lo)

\* C22 witness: an explicit target at equal distance from its two neighbours in an
\* ascending list was snapped to the lower one
C22_Witness ==
  /\ eff.op = "max" /\ cores[1].hasFreq /\ IsAscending(cores[1].avail)
  /\ eff.target.has
  /\ \E lo \in 1..MaxFreq, hi \in 1..MaxFreq :
       /\ Between(cores[1], eff, lo, hi)
       /\ eff.target.v - lo = hi - eff.target.v
       /\ eff.res.v = lo

\* list values below / above the value r
Below(core, r) == Cardinality({ f \in Range(core.avail) : f < r })

Above(core, r) == Cardinality({ f \in Range(core.avail) : f > r })

\* the last evaluation resolved the reduced sentinel of the max target
ReducedEvaluated == eff.op = "max" /\ cores[1].hasFreq /\ eff.target = Some(-1)

SetMax(S) == CHOOSE x \in S : \A y \in S : x >= y

\* a target that names a frequency: not absent and not the reduced sentinel
ConcreteTarget(t) == t.has /\ t.v # -1

\* C24 as stated: when the boost toggle exists and the first processed core reports
\* acpi-cpufreq, setGovernorScalingMaxFrequency(t) writes boost disabled if t is a concrete
\* frequency at or below the largest value of the first core's available list and enabled
\* otherwise; when the toggle is missing or the driver differs it does not write boost
C24_AsStated ==
  \A t \in Targets(TopFreq) :
    LET r  == setGovernorScalingMaxFrequency(cores, boost, t)
        bw == { w \in r.writes : w.reg = "boost" }
    IN IF CallAcpiFallback(cores, boost)
         THEN cores[1].avail # <<>> =>
                bw = {WrBool("boost", -1,
                             ~(ConcreteTarget(t) /\ t.v <= SetMax(Range(cores[1].avail))))}
         ELSE bw = {} /\ r.boost = boost

\* the indices discovery must keep: in both 'possible' and 'present', and either core 0 or
\* a core with an online register
ExpectedIndices ==
  { i \in Range(sysfs.possible.v) \cap Range(sysfs.present.v) : i = 0 \/ i \in sysfs.onlineAvail }

\* C25: the cores vector holds exactly the indices of the intersection of 'possible' and
\* 'present' that are core 0 or have an online register, each once and in ascending order
\* (no cores when either set is unreadable), at construction and after any sequence of
\* useCores, set max / min frequency, setGovernor and setEnergyPerformancePreference.
C25_DiscoveredCoresFixed ==
  /\ { cores[p].coreIndex : p \in 1..Len(cores) } = ExpectedIndices
  /\ \A p \in 1..(Len(cores) - 1) : cores[p].coreIndex < cores[p + 1].coreIndex
  /\ \A p \in 1..Len(cores) : cores[p].onlineAvail <=> cores[p].coreIndex \in sysfs.onlineAvail

\* C25 witness: 'possible' lists 2, 1, 0 in descending order, 'present' lacks none of them,
\* core 1 has no online register; after useCores the vector holds cores 0 and 2, core 2 offline
C25_Witness ==
  /\ lastOp = "useCores"
  /\ sysfs.possible.v = <<2, 1, 0>>
  /\ 1 \notin sysfs.onlineAvail /\ 0 \notin sysfs.onlineAvail
  /\ Len(cores) = 2
  /\ cores[1].coreIndex = 0 /\ cores[2].coreIndex = 2 /\ ~cores[2].online

(***************************************************************************)
(* Claims about rejected writes (SpecRejects)                              *)
(***************************************************************************)
\* the outcome the claim requires at one core of a multi-core apply: the write was
\* attempted, and the register holds the value unless the kernel rejected the write
Applied(pre, post, writes, reg, field, w, value) ==
  /\ w \in writes
  /\ IF reg \in pre.rejects THEN post = pre ELSE post = [pre EXCEPT ![field] = value]

\* C26 as stated: when the kernel rejects the write to some eligible core, each setter
\* still attempts the write on every eligible core and every core whose write succeeds
\* holds the new value afterwards (nothing is rolled back)
C26_AsStated ==
  /\ \A t \in Targets(TopFreq) : \A i \in 1..Len(cores) :
       LET rmax == setGovernorScalingMaxFrequency(cores, boost, t)
           rmin == setGovernorScalingMinFrequency(cores, t)
           emax == computeEffectiveMaxFreq(cores[i], t, CallAcpiFallback(cores, boost))
           emin == computeEffectiveMinFreq(cores[i], t)
       IN ((\E j \in 1..Len(cores) : FreqProcessed(cores[j]) /\ cores[j].rejects # {})
             /\ FreqProcessed(cores[i])) =>
            /\ Applied(cores[i], rmax.cores[i], rmax.writes, "scalingMaxFreq", "scalingMaxFreq",
                       WrInt("scalingMaxFreq", i - 1, emax.v), emax.v)
            /\ Applied(cores[i], rmin.cores[i], rmin.writes, "scalingMinFreq", "scalingMinFreq",
                       WrInt("scalingMinFreq", i - 1, emin.v), emin.v)
  /\ \A g \in GovernorRequests : \A i \in 1..Len(cores) :
       LET r == setGovernor(cores, g)
       IN (g.has /\ (\E j \in 1..Len(cores) : GovEligible(cores[j], g.v) /\ cores[j].rejects # {})
             /\ GovEligible(cores[i], g.v)) =>
            Applied(cores[i], r.cores[i], r.writes, "scalingGovernor", "gov",
                    WrStr("scalingGovernor", i - 1, g.v), g.v)
  /\ \A e \in PreferenceRequests : \A i \in 1..Len(cores) :
       LET r == setEnergyPerformancePreference(cores, e)
       IN (e.has /\ (\E j \in 1..Len(cores) : EppEligible(cores[j], e.v) /\ cores[j].rejects # {})
             /\ EppEligible(cores[i], e.v)) =>
            Applied(cores[i], r.cores[i], r.writes, "energyPerformancePreference", "epp",
                    WrStr("energyPerformancePreference", i - 1, e.v), e.v)

(***************************************************************************)
(* Claims about the client-side decoder (SpecDecode)                       *)
(***************************************************************************)
IsPrefix(a, b) == Len(a) <= Len(b) /\ \A i \in 1..Len(a) : a[i] = b[i]

\* the timestamps of the points a decode appended
AppendedTs(d) == UNION { { d.buffers[i][k].x : k \in 1..Len(d.buffers[i]) } : i \in MetricIds }

\* C27: for every received byte sequence applyBinaryData reads only bytes of the buffer;
\* every point it appends comes from 16 bytes it read after a 5-byte header; what it decodes
\* from a shorter delivery of the same bytes is kept when more bytes arrive (a block that
\* does not fit stops the decoding and loses nothing decoded before it); and the cursor is
\* the old cursor, or one more than the largest appended timestamp when that is larger, so
\* a block with an unknown metric id appends nothing and does not move the cursor.
C27_DecodeWithinBuffer ==
  storeLast.op = "decode" =>
    /\ decoded.extent <= Len(wire.bytes)
    /\ 16 * SumLen(decoded.buffers, 0) + (IF SumLen(decoded.buffers, 0) > 0 THEN 5 ELSE 0)
         <= decoded.extent
    /\ \A cut \in {1, 5, 16} :
         LET shorter == applyBinaryData(Truncate(wire.bytes, cut), EmptyBuffers, wire.since)
         IN /\ \A i \in MetricIds : IsPrefix(shorter.buffers[i], decoded.buffers[i])
            /\ shorter.lastTimestamp <= decoded.lastTimestamp
    /\ decoded.lastTimestamp =
         (IF \E ts \in AppendedTs(decoded) : ts > wire.since
            THEN SetMax(AppendedTs(decoded)) + 1
            ELSE wire.since)

\* C27 witness: the first block was complete and its point is kept, a later block did not
\* fit and the decoding stopped before the end of the buffer
C27_Witness ==
  /\ storeLast.op = "decode"
  /\ Len(decoded.buffers[4]) = 1
  /\ decoded.lastTimestamp = 70001
  /\ decoded.extent < Len(wire.bytes)

(***************************************************************************)
(* Claims about the tray's manual overrides (SpecTray)                     *)
(***************************************************************************)
\* the handler that just ran changed the active system profile on one of the three paths,
\* and the pollSlowState it is or ends with read the daemon's profile
ProfileChangePolled ==
  /\ tray.last.op \in {"pollSlowState", "setActiveProfile", "onDaemonProfileChanged"}
  /\ tray.last.switched
  /\ tray.last.polled

\* the tray shows what the daemon reports for its active profile
AdoptsDaemonState ==
  /\ tray.activeProfileFanId = ProfileFan[daemon.activeProfile]
  /\ tray.activeProfileKeyboardId = resolveKeyboardProfileId(ProfileKeyboard[daemon.activeProfile])
  /\ tray.last.wcReported => tray.wcEnabled = daemon.waterCooler

\* C28 as stated: when the active system profile has changed by any of the three paths
\* (detected by pollSlowState, made through setActiveProfile, announced by the daemon's
\* profileChanged signal), the fan, keyboard and water-cooler overrides are reset and the
\* next pollSlowState adopts the fan profile, keyboard profile and water-cooler state the
\* daemon reports
C28_AsStated ==
  ProfileChangePolled =>
     /\ ~tray.fanProfileOverride
     /\ ~tray.keyboardProfileOverride
     /\ ~tray.wcEnabledOverride
     /\ AdoptsDaemonState

(***************************************************************************)
(* Claims about incremental polling (SpecPoll)                             *)
(***************************************************************************)
\* between fetches, every sample the store held at a fetch and had been pushed since the
\* fetch before has been appended to the client's buffers once, in the order of the pushes
DeliveredOnce ==
  monitor.pc = "idle" => \A i \in MetricIds : monitor.appended[i] = monitor.owed[i]

CursorStep == monitor'.lastTimestamp >= monitor.lastTimestamp

\* C29 as stated: with a client that queries since its cursor and then moves the cursor to
\* the largest received timestamp + 1, interleaved with pushes on any metrics, every sample
\* still retained at the client's next fetch after its push is appended to the client's
\* buffers exactly once, and the cursor never decreases
C29_AsStated == [](DeliveredOnce) /\ [][CursorStep]_vars

(***************************************************************************)
(* Claims about queries concurrent with a push (SpecSnapshot)              *)
(***************************************************************************)
\* the points a client decodes from a reply, per metric
PointsOf(bytes) == applyBinaryData(bytes, EmptyBuffers, 0).buffers

\* C30: under any interleaving of one pushing thread with threads in querySinceBinary and
\* setHorizon, a finished query has read one state of all buffers, the one at the moment it
\* got the lock; no push stood between its append and its unlock at that moment, no point
\* of the reply carries a value that was not yet stored, and two queries with the same
\* cursor between which no push completed return the same bytes
C30_AtomicSnapshot ==
  /\ \A r \in ReaderIds :
       LET t == readers.thread[r]
       IN t.pc = "done" =>
            /\ ~t.midPush
            /\ t.out = querySinceBinary(t.snapshot, t.arg)
            /\ LET points == PointsOf(t.out)
               IN \A i \in MetricIds :
                    \A k \in 1..Len(points[i]) : points[i][k].y # ZeroValue
  /\ \A r1 \in ReaderIds, r2 \in ReaderIds :
       LET t1 == readers.thread[r1]
           t2 == readers.thread[r2]
       IN (t1.pc = "done" /\ t2.pc = "done" /\ t1.arg = t2.arg /\ t1.epoch = t2.epoch)
            => t1.out = t2.out

\* C30 witness: two queries with the same cursor have finished with a non-empty reply and
\* no push completed between them, while the pushing thread of a further sample, entered
\* after the first sample was stored, waits for the lock or holds it
C30_Witness ==
  /\ \E r1 \in ReaderIds, r2 \in ReaderIds :
       /\ r1 # r2
       /\ readers.thread[r1].pc = "done" /\ readers.thread[r2].pc = "done"
       /\ readers.thread[r1].arg = readers.thread[r2].arg
       /\ readers.thread[r1].epoch = readers.thread[r2].epoch
       /\ readers.thread[r1].out # <<>>
  /\ producers[Pusher].pc \in {"lock", "body", "value", "trim"}

====
